---- MODULE Spec2Model ----
(***************************************************************************)
(* Chiller catalog: the Record Store (db.py) and the Selector / Ranking    *)
(* Engine (Chilo/selector.py).                                             *)
(*                                                                         *)
(* Numbers.  Capacities, efficiencies and waterflows are integers here.    *)
(* A tolerance is kept in thousandths (0.125 is 125), and a capacity band  *)
(* in thousandths of a ton, so that capacity * (1 - tolerance) is exact.   *)
(* A nullable value (SQL NULL / Python None) is the empty sequence, a      *)
(* present value v is <<v>>.                                               *)
(***************************************************************************)
EXTENDS Integers, Sequences, FiniteSets, TLC

VARIABLES
    store,      \* rows of table chillers, in rowid order
    nextId,     \* next AUTOINCREMENT id
    result,     \* <<>> before any search, else <<dictionary returned by find_best_chillers>>
    queryLog,   \* the Store calls made by the last find_best_chillers, in call order
    text,       \* the text handed to detect_delimiter, a sequence of characters
    delimiter,  \* <<>> before detect_delimiter has run, else <<what it returned>>
    pasted,     \* the paste of the import page: the table pd.read_csv reads from
                \* it and the batch options
    parsed,     \* <<>>, else <<what parse_table_text returned>>: session_state's
                \* parsed_df and parsed_errors
    imported,   \* <<>>, else <<what import_chillers_from_dataframe returned>>
    connections, \* the connections sqlite3.connect() has made, in order, each with
                \* the operation that made it, its caller and how far it is
    row_dict,   \* <<>>, else <<the dictionary handed to validate_chiller_data>>
    validation, \* <<>>, else <<what validate_chiller_data returned>>
    model_name, \* the model handed to extract_model_prefix, a sequence of characters
    model_prefix, \* <<>> before extract_model_prefix has run, else <<what it returned>>
    search_history, \* st.session_state.search_history
    session_state \* the keys parsed_df and parsed_errors of st.session_state

vars ==
    <<store, nextId, result, queryLog, text, delimiter, pasted, parsed, imported,
      connections, row_dict, validation, model_name, model_prefix, search_history,
      session_state>>

\* the state of the import page
importVars == <<text, delimiter, pasted, parsed, imported>>

\* the arguments and the results of the utilities
utilVars == <<row_dict, validation, model_name, model_prefix>>

\* the session of the user interface
sessionVars == <<search_history, session_state>>

\* the state the search page and the import page leave alone
otherVars == <<connections, utilVars, sessionVars>>

NULL == <<>>

Some(v) == <<v>>

Abs(x) == IF x < 0 THEN -x ELSE x

Range(s) == {s[i] : i \in 1..Len(s)}

\* ------------------------------------------------------------------------
\* Bounds of the model
\* ------------------------------------------------------------------------

\* most rows the table holds in the filter catalog
MaxStore == 2

\* most rows the table holds in the bracket catalog
MaxBracket == 3

\* most rows the table holds in the scenario catalog
MaxScenario == 3

\* most characters of a text handed to detect_delimiter
MaxTextLen == 6

\* most data rows of a pasted table
MaxRows == 2

\* most runs of records of a frame to import
MaxRuns == 3

\* most rows the table holds before an import
MaxStoredBefore == 1

\* most connections made in the connection specification
MaxConnections == 3

\* most characters of a model handed to extract_model_prefix
MaxModelLen == 4

\* the last second of the clock that stamps the searches
MaxClock == 3

\* most rows the table holds before the import button stops
MaxImported == 2

\* most rows the table holds in the ranking catalog
MaxRank == 3

\* ------------------------------------------------------------------------
\* db.py
\* ------------------------------------------------------------------------

\* INSERT INTO chillers: the row gets the next id; model TEXT NOT NULL makes
\* the insert raise (nothing is committed) when the model is missing.
insert_chiller(chiller_data) ==
    /\ chiller_data.model # NULL
    /\ store' = Append(store, [id |-> nextId] @@ chiller_data)
    /\ nextId' = nextId + 1
    /\ UNCHANGED <<result, queryLog, importVars, otherVars>>

\* capacity_tons * (1 - capacity_tolerance), in thousandths of a ton
cap_min(capacity_tons, tolerance) == capacity_tons * (1000 - tolerance)

\* a band that reaches twice as far above the target as below
cap_max_twice_as_wide(capacity_tons, tolerance) == capacity_tons * (1000 + 2 * tolerance)

\* capacity_tons * (1 + capacity_tolerance), in thousandths of a ton
cap_max(capacity_tons, tolerance) == capacity_tons * (1000 + tolerance)

\* MatchesCriteria with the LWT filter left out of the query
MatchesCriteria_NoLwtFilter(row, capacity_tons, ambient_f, ewt_c, lwt_c, tolerance) ==
    /\ row.ambient_f # NULL
    /\ row.ambient_f[1] = ambient_f
    /\ row.capacity_tons # NULL
    /\ row.capacity_tons[1] * 1000 >= cap_min(capacity_tons, tolerance)
    /\ row.capacity_tons[1] * 1000 <= cap_max(capacity_tons, tolerance)
    /\ (ewt_c # NULL => (row.ewt_c # NULL /\ row.ewt_c[1] = ewt_c[1]))

\* The WHERE clause of get_chillers_by_criteria.  A comparison with a NULL
\* column is not true in SQL, so a row with a NULL ambient, capacity or
\* (filtered) water temperature is never selected.
MatchesCriteria(row, capacity_tons, ambient_f, ewt_c, lwt_c, tolerance) ==
    /\ row.ambient_f # NULL
    /\ row.ambient_f[1] = ambient_f
    /\ row.capacity_tons # NULL
    /\ row.capacity_tons[1] * 1000 >= cap_min(capacity_tons, tolerance)
    /\ row.capacity_tons[1] * 1000 <= cap_max(capacity_tons, tolerance)
    /\ (ewt_c # NULL => (row.ewt_c # NULL /\ row.ewt_c[1] = ewt_c[1]))
    /\ (lwt_c # NULL => (row.lwt_c # NULL /\ row.lwt_c[1] = lwt_c[1]))

\* a query without the EWT and LWT filters
get_chillers_by_criteria_any_water(st, capacity_tons, ambient_f, ewt_c, lwt_c, tolerance) ==
    SelectSeq(st, LAMBDA row :
        MatchesCriteria(row, capacity_tons, ambient_f, NULL, NULL, tolerance))

\* SELECT * FROM chillers WHERE ...: the matching rows in rowid order
get_chillers_by_criteria(st, capacity_tons, ambient_f, ewt_c, lwt_c, tolerance) ==
    SelectSeq(st, LAMBDA row :
        MatchesCriteria(row, capacity_tons, ambient_f, ewt_c, lwt_c, tolerance))

RECURSIVE SortedInts(_)
\* the elements of a finite set of integers in ascending order
SortedInts(S) ==
    IF S = {} THEN <<>>
    ELSE LET m == CHOOSE x \in S : \A y \in S : x <= y
         IN  <<m>> \o SortedInts(S \ {m})

\* SELECT DISTINCT ambient_f ... WHERE ambient_f IS NOT NULL ORDER BY ambient_f
get_available_ambients(st) ==
    SortedInts({st[i].ambient_f[1] : i \in {j \in 1..Len(st) : st[j].ambient_f # NULL}})

\* ------------------------------------------------------------------------
\* Chilo/selector.py
\* ------------------------------------------------------------------------

\* self.capacity_tolerance_levels = [0.10, 0.125, 0.15, 0.175, 0.20]
capacity_tolerance_levels == <<100, 125, 150, 175, 200>>

\* entry of queryLog for one call of get_chillers_by_criteria
CriteriaCall(ambient_f, tolerance) ==
    [fn |-> "get_chillers_by_criteria", ambient_f |-> ambient_f, tolerance |-> tolerance]

\* entry of queryLog for one call of get_available_ambients
AmbientsCall ==
    [fn |-> "get_available_ambients", ambient_f |-> 0, tolerance |-> 0]

\* the search_info dictionary
SearchInfo(capacity_tons, ambient_f, ewt_c, lwt_c, tolerance, range, found) ==
    [capacity_tons |-> capacity_tons, ambient_f |-> ambient_f,
     ewt_c |-> ewt_c, lwt_c |-> lwt_c,
     tolerance_used |-> tolerance, capacity_range |-> range,
     candidates_found |-> found]

RECURSIVE TryLevels(_, _, _, _, _, _, _)
\* the for loop of _find_candidates_with_tolerance from level i on; calls is
\* the Store calls made so far
TryLevels(st, capacity_tons, ambient_f, ewt_c, lwt_c, i, calls) ==
    IF i > Len(capacity_tolerance_levels)
    THEN LET last == capacity_tolerance_levels[Len(capacity_tolerance_levels)]
         IN  [candidates |-> <<>>,
              tolerance |-> last,
              search_info |-> SearchInfo(capacity_tons, ambient_f, ewt_c, lwt_c, last,
                                         <<capacity_tons * 800, capacity_tons * 1200>>, 0),
              calls |-> calls]
    ELSE LET tolerance == capacity_tolerance_levels[i]
             candidates == get_chillers_by_criteria(st, capacity_tons, ambient_f,
                                                    ewt_c, lwt_c, tolerance)
             made == Append(calls, CriteriaCall(ambient_f, tolerance))
         IN  IF candidates # <<>>
             THEN [candidates |-> candidates,
                   tolerance |-> tolerance,
                   search_info |-> SearchInfo(capacity_tons, ambient_f, ewt_c, lwt_c, tolerance,
                                              <<cap_min(capacity_tons, tolerance),
                                                cap_max(capacity_tons, tolerance)>>,
                                              Len(candidates)),
                   calls |-> made]
             ELSE TryLevels(st, capacity_tons, ambient_f, ewt_c, lwt_c, i + 1, made)

\* _find_candidates_with_tolerance with the loop starting at the second level
_find_candidates_skipping_first(st, capacity_tons, ambient_f, ewt_c, lwt_c) ==
    TryLevels(st, capacity_tons, ambient_f, ewt_c, lwt_c, 2, <<>>)

\* progressive tolerance widening
_find_candidates_with_tolerance(st, capacity_tons, ambient_f, ewt_c, lwt_c) ==
    TryLevels(st, capacity_tons, ambient_f, ewt_c, lwt_c, 1, <<>>)

RECURSIVE FallbackLoop(_, _, _, _, _, _, _, _)
\* the for loop of _try_fallback_ambients from position i of available_ambients
FallbackLoop(st, capacity_tons, ewt_c, lwt_c, available_ambients, i, fallback_results, calls) ==
    IF i > Len(available_ambients)
    THEN [fallback_results |-> fallback_results, calls |-> calls]
    ELSE LET ambient == available_ambients[i]
             found == _find_candidates_with_tolerance(st, capacity_tons, ambient, ewt_c, lwt_c)
         IN  FallbackLoop(st, capacity_tons, ewt_c, lwt_c, available_ambients, i + 1,
                 IF found.candidates # <<>>
                 THEN Append(fallback_results,
                             [ambient_f |-> ambient,
                              candidates |-> found.candidates,
                              tolerance_used |-> found.tolerance,
                              count |-> Len(found.candidates)])
                 ELSE fallback_results,
                 calls \o found.calls)

\* _try_fallback_ambients with the loop starting at the second ambient
_try_fallback_skipping_first(st, capacity_tons, ewt_c, lwt_c) ==
    FallbackLoop(st, capacity_tons, ewt_c, lwt_c, get_available_ambients(st), 2,
                 <<>>, <<AmbientsCall>>)

\* one group per available ambient at which the widening search finds rows
_try_fallback_ambients(st, capacity_tons, ewt_c, lwt_c) ==
    FallbackLoop(st, capacity_tons, ewt_c, lwt_c, get_available_ambients(st), 1,
                 <<>>, <<AmbientsCall>>)


\* t1 < t2 for two Python tuples of numbers of the same length
TupleLess(t1, t2) ==
    \E k \in 1..Len(t1) :
        /\ t1[k] < t2[k]
        /\ \A j \in 1..(k - 1) : t1[j] = t2[j]

\* sum of the absolute EWT and LWT deviations, each counted only when both
\* the target and the row's value are present
temp_score(chiller, ewt_c, lwt_c) ==
    (IF ewt_c # NULL /\ chiller.ewt_c # NULL
     THEN Abs(chiller.ewt_c[1] - ewt_c[1]) ELSE 0)
    + (IF lwt_c # NULL /\ chiller.lwt_c # NULL
       THEN Abs(chiller.lwt_c[1] - lwt_c[1]) ELSE 0)

\* efficiency_key with a missing efficiency counted as 0
efficiency_key_null_as_zero(chiller) ==
    IF chiller.efficiency_kw_per_ton = NULL
    THEN <<0, 0>>
    ELSE <<0, chiller.efficiency_kw_per_ton[1]>>

\* efficiency of the sort key: <<0, e>> for a known efficiency e and <<1, 0>>
\* for float('inf'), which compare as e < inf
efficiency_key(chiller) ==
    IF chiller.efficiency_kw_per_ton = NULL
    THEN <<1, 0>>
    ELSE <<0, chiller.efficiency_kw_per_ton[1]>>

\* waterflow of the sort key: 0 for a missing waterflow
waterflow_key(chiller) ==
    IF chiller.waterflow_usgpm = NULL THEN 0 ELSE chiller.waterflow_usgpm[1]

\* the score without the efficiency
calculate_ranking_score_without_efficiency(chiller, capacity_tons, ewt_c, lwt_c) ==
    <<Abs(chiller.capacity_tons[1] - capacity_tons),
      temp_score(chiller, ewt_c, lwt_c)>>
    \o <<-waterflow_key(chiller)>>

\* (cap_delta, temp_score, efficiency, -waterflow)
calculate_ranking_score(chiller, capacity_tons, ewt_c, lwt_c) ==
    <<Abs(chiller.capacity_tons[1] - capacity_tons),
      temp_score(chiller, ewt_c, lwt_c)>>
    \o efficiency_key(chiller)
    \o <<-waterflow_key(chiller)>>

\* InsertByScore with x placed before the elements of equal key
InsertByScore_unstable(ranked, x, capacity_tons, ewt_c, lwt_c) ==
    LET kx == calculate_ranking_score(x, capacity_tons, ewt_c, lwt_c)
        p == Cardinality({i \in 1..Len(ranked) :
                 TupleLess(calculate_ranking_score(ranked[i], capacity_tons, ewt_c, lwt_c), kx)})
    IN  SubSeq(ranked, 1, p) \o <<x>> \o SubSeq(ranked, p + 1, Len(ranked))

\* one step of the stable sort: x goes after every element whose key is not
\* greater than its own
InsertByScore(ranked, x, capacity_tons, ewt_c, lwt_c) ==
    LET kx == calculate_ranking_score(x, capacity_tons, ewt_c, lwt_c)
        p == Cardinality({i \in 1..Len(ranked) :
                 ~TupleLess(kx, calculate_ranking_score(ranked[i], capacity_tons, ewt_c, lwt_c))})
    IN  SubSeq(ranked, 1, p) \o <<x>> \o SubSeq(ranked, p + 1, Len(ranked))

RECURSIVE sorted(_, _, _, _)
\* sorted(candidates, key=calculate_ranking_score): ascending and stable
sorted(candidates, capacity_tons, ewt_c, lwt_c) ==
    IF candidates = <<>> THEN <<>>
    ELSE InsertByScore(
             sorted(SubSeq(candidates, 1, Len(candidates) - 1), capacity_tons, ewt_c, lwt_c),
             candidates[Len(candidates)], capacity_tons, ewt_c, lwt_c)

\* the sorted candidates, each with its ranking metadata
_rank_candidates(candidates, capacity_tons, ewt_c, lwt_c) ==
    LET ranked == sorted(candidates, capacity_tons, ewt_c, lwt_c)
    IN  [i \in 1..Len(ranked) |->
            ranked[i] @@
            [_rank |-> i,
             _cap_delta |-> Abs(ranked[i].capacity_tons[1] - capacity_tons),
             _temp_score |-> temp_score(ranked[i], ewt_c, lwt_c)]]

\* above_candidates with the rows in reverse rank order
above_candidates_reversed(ranked_candidates) ==
    LET above == SelectSeq(Tail(ranked_candidates),
                     LAMBDA c : c.capacity_tons[1] > ranked_candidates[1].capacity_tons[1])
    IN  [i \in 1..Len(above) |-> above[Len(above) + 1 - i]]

\* the rows of ranked_candidates[1:] above the best capacity, in rank order
above_candidates(ranked_candidates) ==
    SelectSeq(Tail(ranked_candidates),
              LAMBDA c : c.capacity_tons[1] > ranked_candidates[1].capacity_tons[1])

\* the rows of ranked_candidates[1:] below the best capacity, in rank order
below_candidates(ranked_candidates) ==
    SelectSeq(Tail(ranked_candidates),
              LAMBDA c : c.capacity_tons[1] < ranked_candidates[1].capacity_tons[1])

\* _select_best_3_options with the row below appended before the row above
_select_best_3_below_first(ranked_candidates) ==
    IF ranked_candidates = <<>> THEN <<>>
    ELSE IF Len(ranked_candidates) <= 1 THEN <<ranked_candidates[1]>>
    ELSE LET above == SelectSeq(Tail(ranked_candidates),
                          LAMBDA c : c.capacity_tons[1] > ranked_candidates[1].capacity_tons[1])
             below == SelectSeq(Tail(ranked_candidates),
                          LAMBDA c : c.capacity_tons[1] < ranked_candidates[1].capacity_tons[1])
             best_options ==
                 <<ranked_candidates[1]>>
                 \o (IF below # <<>> THEN <<below[1]>> ELSE <<>>)
                 \o (IF above # <<>> THEN <<above[1]>> ELSE <<>>)
         IN  SubSeq(best_options, 1, IF Len(best_options) < 3 THEN Len(best_options) ELSE 3)

\* best, then the first row above it, then the first row below it
_select_best_3_options(ranked_candidates) ==
    IF ranked_candidates = <<>> THEN <<>>
    ELSE IF Len(ranked_candidates) <= 1 THEN <<ranked_candidates[1]>>
    ELSE LET above == above_candidates(ranked_candidates)
             below == below_candidates(ranked_candidates)
             best_options ==
                 <<ranked_candidates[1]>>
                 \o (IF above # <<>> THEN <<above[1]>> ELSE <<>>)
                 \o (IF below # <<>> THEN <<below[1]>> ELSE <<>>)
         IN  SubSeq(best_options, 1, IF Len(best_options) < 3 THEN Len(best_options) ELSE 3)

\* 'fallback_available': False
FallbackFalse == [searched |-> FALSE, groups |-> <<>>]

\* 'fallback_available': fallback_results
FallbackList(fallback_results) == [searched |-> TRUE, groups |-> fallback_results]

\* abs(None - capacity_tons) raises TypeError
RankingRaises(candidates) ==
    \E i \in 1..Len(candidates) : candidates[i].capacity_tons = NULL

\* NoCandidates that also takes a single candidate for none
NoCandidates_or_single(candidates) == Len(candidates) <= 1

\* if not candidates
NoCandidates(candidates) == candidates = <<>>

\* NoMatchResult with no_matches left False
NoMatchResult_flag_false(search_info, fallback_results, calls) ==
    [best_option |-> NULL,
     alternatives |-> <<>>,
     all_matches |-> <<>>,
     search_info |-> search_info,
     fallback_available |-> FallbackList(fallback_results),
     no_matches |-> FALSE,
     raised |-> FALSE,
     calls |-> calls]

\* the dictionary returned when no tolerance level yields a candidate
NoMatchResult(search_info, fallback_results, calls) ==
    [best_option |-> NULL,
     alternatives |-> <<>>,
     all_matches |-> <<>>,
     search_info |-> search_info,
     fallback_available |-> FallbackList(fallback_results),
     no_matches |-> TRUE,
     raised |-> FALSE,
     calls |-> calls]

\* no dictionary is returned: the exception of the ranking leaves the function
RaisedResult(search_info, calls) ==
    [best_option |-> NULL,
     alternatives |-> <<>>,
     all_matches |-> <<>>,
     search_info |-> search_info,
     fallback_available |-> FallbackFalse,
     no_matches |-> FALSE,
     raised |-> TRUE,
     calls |-> calls]

\* the dictionary returned when the ranking is empty
EmptyRankResult(search_info, calls) ==
    [best_option |-> NULL,
     alternatives |-> <<>>,
     all_matches |-> <<>>,
     search_info |-> search_info,
     fallback_available |-> FallbackFalse,
     no_matches |-> TRUE,
     raised |-> FALSE,
     calls |-> calls]

\* the dictionary returned with the ranked candidates
MatchResult(best_options, ranked_candidates, search_info, calls) ==
    [best_option |-> IF best_options # <<>> THEN Some(best_options[1]) ELSE NULL,
     alternatives |-> IF Len(best_options) > 1
                      THEN SubSeq(best_options, 2,
                                  IF Len(best_options) < 3 THEN Len(best_options) ELSE 3)
                      ELSE <<>>,
     all_matches |-> ranked_candidates,
     search_info |-> search_info,
     fallback_available |-> FallbackFalse,
     no_matches |-> FALSE,
     raised |-> FALSE,
     calls |-> calls]

\* the dictionary find_best_chillers returns, with the Store calls it made
find_best_chillers(st, capacity_tons, ambient_f, ewt_c, lwt_c) ==
    LET found == _find_candidates_with_tolerance(st, capacity_tons, ambient_f, ewt_c, lwt_c)
    IN  IF NoCandidates(found.candidates)
        THEN LET fallback == _try_fallback_ambients(st, capacity_tons, ewt_c, lwt_c)
             IN  NoMatchResult(found.search_info, fallback.fallback_results,
                               found.calls \o fallback.calls)
        ELSE IF RankingRaises(found.candidates)
        THEN RaisedResult(found.search_info, found.calls)
        ELSE LET ranked_candidates ==
                     _rank_candidates(found.candidates, capacity_tons, ewt_c, lwt_c)
             IN  IF ranked_candidates = <<>>
                 THEN EmptyRankResult(found.search_info, found.calls)
                 ELSE MatchResult(_select_best_3_options(ranked_candidates),
                                  ranked_candidates, found.search_info, found.calls)

\* the fields of the returned dictionary
ResultOf(r) ==
    [best_option |-> r.best_option, alternatives |-> r.alternatives,
     all_matches |-> r.all_matches, search_info |-> r.search_info,
     fallback_available |-> r.fallback_available, no_matches |-> r.no_matches,
     raised |-> r.raised]

\* ------------------------------------------------------------------------
\* Importer (Chilo/importer.py): detect_delimiter
\* ------------------------------------------------------------------------

\* the characters str.strip() removes and \\s matches
Whitespace == {" ", "\t", "\n"}

RECURSIVE lstrip(_)
lstrip(s) ==
    IF s # <<>> /\ Head(s) \in Whitespace THEN lstrip(Tail(s)) ELSE s

RECURSIVE rstrip(_)
rstrip(s) ==
    IF s # <<>> /\ s[Len(s)] \in Whitespace
    THEN rstrip(SubSeq(s, 1, Len(s) - 1))
    ELSE s

\* str.strip()
strip(s) == rstrip(lstrip(s))

RECURSIVE split(_, _)
\* s.split('\n'), with line the characters of the line being read
split(s, line) ==
    IF s = <<>> THEN <<line>>
    ELSE IF Head(s) = "\n" THEN <<line>> \o split(Tail(s), <<>>)
    ELSE split(Tail(s), Append(line, Head(s)))

\* line.count(c)
count(line, c) == Cardinality({i \in 1..Len(line) : line[i] = c})

\* len(re.findall(r'\s{2,}', line)): the maximal runs of at least two
\* whitespace characters
findall_whitespace_runs(line) ==
    Cardinality({i \in 1..(Len(line) - 1) :
                    /\ line[i] \in Whitespace
                    /\ line[i + 1] \in Whitespace
                    /\ (i = 1 \/ line[i - 1] \notin Whitespace)})

RECURSIVE sum(_)
sum(counts) == IF counts = <<>> THEN 0 ELSE Head(counts) + sum(Tail(counts))

\* lines[:3]
sample_lines(lines) == SubSeq(lines, 1, IF Len(lines) < 3 THEN Len(lines) ELSE 3)

\* what detect_delimiter returns
TabDelimiter == "\t"
CommaDelimiter == ","
SpaceDelimiter == "\\s{2,}"

\* detect_delimiter that gives a tie to the kind counted first
detect_delimiter_tie_to_first(txt) ==
    LET lines == split(strip(txt), <<>>)
        sample == sample_lines(lines)
        tab_count == sum([k \in 1..Len(sample) |-> count(sample[k], "\t")])
        comma_count == sum([k \in 1..Len(sample) |-> count(sample[k], ",")])
        space_count == sum([k \in 1..Len(sample) |-> findall_whitespace_runs(sample[k])])
    IN  IF lines = <<>> THEN TabDelimiter
        ELSE IF tab_count >= comma_count /\ tab_count >= space_count THEN TabDelimiter
        ELSE IF comma_count >= space_count THEN CommaDelimiter
        ELSE SpaceDelimiter

\* detect_delimiter(text)
detect_delimiter(txt) ==
    LET lines == split(strip(txt), <<>>)
        sample == sample_lines(lines)
        tab_count == sum([k \in 1..Len(sample) |-> count(sample[k], "\t")])
        comma_count == sum([k \in 1..Len(sample) |-> count(sample[k], ",")])
        space_count == sum([k \in 1..Len(sample) |-> findall_whitespace_runs(sample[k])])
    IN  IF lines = <<>> THEN TabDelimiter
        ELSE IF tab_count > comma_count /\ tab_count > space_count THEN TabDelimiter
        ELSE IF comma_count > space_count THEN CommaDelimiter
        ELSE SpaceDelimiter

\* ------------------------------------------------------------------------
\* Values of a table cell and of a dictionary entry (pandas, Python)
\* ------------------------------------------------------------------------

\* Python's None
None == [t |-> "None", v |-> 0, s |-> "", d |-> {}]

\* float('nan'), what pandas puts in an empty cell
NaN == [t |-> "nan", v |-> 0, s |-> "", d |-> {}]

\* a number
Num(n) == [t |-> "float", v |-> n, s |-> "", d |-> {}]

\* a string
Str(s) == [t |-> "str", v |-> 0, s |-> s, d |-> {}]

\* a dictionary, as the set of its <<key, value>> entries
Dict(entries) == [t |-> "dict", v |-> 0, s |-> "", d |-> entries]

\* data.get(key)
get(data, key) == IF key \in DOMAIN data THEN data[key] ELSE None

\* bool(value): nan is true
truthy(value) ==
    CASE value.t = "None" -> FALSE
      [] value.t = "nan" -> TRUE
      [] value.t = "float" -> value.v # 0
      [] value.t = "str" -> value.s # ""
      [] value.t = "dict" -> value.d # {}

\* pd.isna(value)
isna(value) == value.t \in {"None", "nan"}

\* the texts of the model that float() converts, with their values
NumericText == ("98" :> 98) @@ ("102" :> 102) @@ ("1" :> 1)

\* the texts of the model that str.strip() changes, with what it makes of them
StrippedText == (" " :> "") @@ (" AVX 30 " :> "AVX 30")

\* str(value).strip()
str_strip(value) ==
    CASE value.t = "str" ->
             IF value.s \in DOMAIN StrippedText THEN StrippedText[value.s] ELSE value.s
      [] value.t = "nan" -> "nan"
      [] value.t = "float" -> ToString(value.v)
      [] value.t = "None" -> "None"
      [] value.t = "dict" -> "{}"

\* ------------------------------------------------------------------------
\* Utilities (Chilo/utils.py)
\* ------------------------------------------------------------------------

\* safe_float(value): None for None, '', 'N/A' and what float() rejects;
\* float(nan) is nan
safe_float(value) ==
    IF value = None \/ value = Str("") \/ value = Str("N/A") THEN None
    ELSE CASE value.t \in {"float", "nan"} -> value
           [] value.t = "str" ->
                  IF value.s \in DOMAIN NumericText THEN Num(NumericText[value.s]) ELSE None
           [] OTHER -> None

\* the manufacturer prefixes, in the order of the dictionary
prefixes ==
    <<[prefix |-> "ACHX", manufacturer |-> "Dunham Bush"],
      [prefix |-> "AVX", manufacturer |-> "Dunham Bush"],
      [prefix |-> "CH", manufacturer |-> "Carrier"],
      [prefix |-> "TRA", manufacturer |-> "Trane"],
      [prefix |-> "RT", manufacturer |-> "Trane"],
      [prefix |-> "YORK", manufacturer |-> "York"],
      [prefix |-> "YV", manufacturer |-> "York"],
      [prefix |-> "MC", manufacturer |-> "McQuay"],
      [prefix |-> "MCH", manufacturer |-> "McQuay"]>>

\* model.upper().startswith(prefix) for the model names of the model
startswith ==
    ("ACHX-B 90S" :> {"ACHX"}) @@ ("AVX 30" :> {"AVX"}) @@ ("nan" :> {})

\* extract_manufacturer_from_model(model): None or the manufacturer of the
\* first prefix the model name starts with
extract_manufacturer_from_model(model) ==
    IF model = "" THEN None
    ELSE LET hits == {k \in 1..Len(prefixes) : prefixes[k].prefix \in startswith[model]}
         IN  IF hits = {} THEN None
             ELSE Str(prefixes[CHOOSE k \in hits : \A j \in hits : k <= j].manufacturer)

\* the letters of the model names of the model, for which c.isalpha() holds
Letters == {"A", "B", "C", "H", "S", "V", "X", "a", "n"}

RECURSIVE first_token(_)
\* the characters of s before its first whitespace
first_token(s) ==
    IF s = <<>> \/ Head(s) \in Whitespace THEN <<>>
    ELSE <<Head(s)>> \o first_token(Tail(s))

\* model.strip().split()[0] for a model that is not blank
first_part(model) == first_token(lstrip(model))

RECURSIVE match_letters_and_dashes(_)
\* what re.match(r'^([A-Za-z\-]+)', s) matches, <<>> when it does not match
match_letters_and_dashes(s) ==
    IF s = <<>> \/ Head(s) \notin Letters \cup {"-"} THEN <<>>
    ELSE <<Head(s)>> \o match_letters_and_dashes(Tail(s))

\* extract_model_prefix(model) on the characters of model: <<>> for None,
\* else <<the prefix>>
extract_model_prefix_of(model) ==
    IF model = <<>> THEN NULL
    ELSE IF strip(model) = <<>> THEN NULL
    ELSE IF \E k \in 1..Len(first_part(model)) :
                first_part(model)[k] \in Letters \/ first_part(model)[k] = "-"
    THEN Some(first_part(model))
    ELSE IF match_letters_and_dashes(model) # <<>>
    THEN Some(match_letters_and_dashes(model))
    ELSE Some(first_part(model))

\* the characters of the model names of the model
characters ==
    ("" :> <<>>)
    @@ ("ACHX-B 90S" :> <<"A", "C", "H", "X", "-", "B", " ", "9", "0", "S">>)
    @@ ("AVX 30" :> <<"A", "V", "X", " ", "3", "0">>)
    @@ (" AVX 30 " :> <<" ", "A", "V", "X", " ", "3", "0", " ">>)
    @@ (" " :> <<" ">>)
    @@ ("nan" :> <<"n", "a", "n">>)

RECURSIVE join(_)
\* ''.join(chars)
join(chars) == IF chars = <<>> THEN "" ELSE Head(chars) \o join(Tail(chars))

\* extract_model_prefix(model) for the model names of the model
extract_model_prefix(model) ==
    IF extract_model_prefix_of(characters[model]) = NULL THEN None
    ELSE Str(join(extract_model_prefix_of(characters[model])[1]))

\* the numeric fields with their display names, in the order of the loop
numeric_fields ==
    <<[field |-> "capacity_tons", display_name |-> "Capacity (tons)"],
      [field |-> "efficiency_kw_per_ton", display_name |-> "Energy efficiency"],
      [field |-> "iplv_kw_per_ton", display_name |-> "IPLV"],
      [field |-> "waterflow_usgpm", display_name |-> "Waterflow"],
      [field |-> "unit_kw", display_name |-> "Unit kW"],
      [field |-> "compressor_kw", display_name |-> "Compressor kW"],
      [field |-> "fan_kw", display_name |-> "Fan kW"],
      [field |-> "mca_amps", display_name |-> "MCA"],
      [field |-> "ambient_f", display_name |-> "Ambient"],
      [field |-> "ewt_c", display_name |-> "EWT"],
      [field |-> "lwt_c", display_name |-> "LWT"]>>

text_fields ==
    <<"model", "manufacturer", "refrigerant", "notes", "folder_name", "model_prefix">>

\* the strings of seq at the positions of ascending order that keep holds of
RECURSIVE SelectFrom(_, _, _)
SelectFrom(seq, keep, k) ==
    IF k > Len(seq) THEN <<>>
    ELSE (IF k \in keep THEN <<seq[k]>> ELSE <<>>) \o SelectFrom(seq, keep, k + 1)

\* the errors of validate_chiller_data: the model first, then the required
\* numeric fields in the order of the loop
validation_errors(data) ==
    (IF ~truthy(get(data, "model")) THEN <<"Model is required">> ELSE <<>>)
    \o SelectFrom([k \in 1..Len(numeric_fields) |->
                       numeric_fields[k].display_name \o " is required"],
                  {k \in 1..Len(numeric_fields) :
                      /\ safe_float(get(data, numeric_fields[k].field)) = None
                      /\ numeric_fields[k].field \in {"capacity_tons", "efficiency_kw_per_ton"}},
                  1)

\* cleaned after the loop over the numeric fields
cleaned_numeric(data) ==
    [f \in {numeric_fields[k].field :
                k \in {j \in 1..Len(numeric_fields) :
                           safe_float(get(data, numeric_fields[j].field)) # None}} |->
        safe_float(get(data, f))]

\* the entries the loop over the text fields adds to cleaned
cleaned_text(data) ==
    [f \in {text_fields[k] : k \in {j \in 1..Len(text_fields) :
                                        truthy(get(data, text_fields[j]))}} |->
        Str(str_strip(get(data, f)))]

\* cleaned with the manufacturer extracted from the model when it has none
with_manufacturer(cleaned) ==
    IF ~truthy(get(cleaned, "manufacturer")) /\ truthy(get(cleaned, "model"))
          /\ truthy(extract_manufacturer_from_model(cleaned["model"].s))
    THEN ("manufacturer" :> extract_manufacturer_from_model(cleaned["model"].s)) @@ cleaned
    ELSE cleaned

\* the entries of data that are no key of cleaned, dimensions and
\* pressure_drop aside, and are not None
extras(data, cleaned) ==
    {<<k, data[k]>> :
        k \in {j \in DOMAIN data \ (DOMAIN cleaned \cup {"dimensions", "pressure_drop"}) :
                  data[j] # None}}

\* cleaned with extras_json when there are extras
with_extras(data, cleaned) ==
    IF extras(data, cleaned) # {}
    THEN ("extras_json" :> Dict(extras(data, cleaned))) @@ cleaned
    ELSE cleaned

\* validate_chiller_data(data), for a data without the keys dimensions and
\* pressure_drop: the cleaned dictionary and the errors
validate_chiller_data(data) ==
    [cleaned |-> with_extras(data, with_manufacturer(cleaned_text(data) @@ cleaned_numeric(data))),
     errors |-> validation_errors(data)]

\* the headers of the model after header.lower().strip(), the removal of
\* the text in parentheses and of the extra whitespace
lowered ==
    ("Model" :> "model") @@ ("Tons" :> "tons")
    @@ ("Energy Efficiency (kW/Ton)" :> "energy efficiency")
    @@ ("Voltage" :> "voltage")
    @@ ("model" :> "model") @@ ("capacity_tons" :> "capacity_tons")
    @@ ("efficiency_kw_per_ton" :> "efficiency_kw_per_ton")

variations ==
    ("energy efficiency (kw/ton)" :> "energy efficiency")
    @@ ("energy efficiency" :> "efficiency_kw_per_ton")
    @@ ("efficiency" :> "efficiency_kw_per_ton")
    @@ ("iplv (kw/ton)" :> "iplv_kw_per_ton")
    @@ ("iplv" :> "iplv_kw_per_ton")
    @@ ("usgpm" :> "waterflow_usgpm")
    @@ ("waterflow" :> "waterflow_usgpm")
    @@ ("u. kw" :> "unit_kw")
    @@ ("c. kw" :> "compressor_kw")
    @@ ("f. kw" :> "fan_kw")
    @@ ("psi/ft.w.g" :> "pressure_drop")
    @@ ("mca" :> "mca_amps")
    @@ ("dimensions" :> "dimensions")

\* normalize_header(header)
normalize_header(header) ==
    IF header = "" THEN ""
    ELSE LET normalized == lowered[header]
         IN  IF normalized \in DOMAIN variations THEN variations[normalized] ELSE normalized

\* ------------------------------------------------------------------------
\* Importer (Chilo/importer.py): parse_table_text
\* ------------------------------------------------------------------------

\* A DataFrame is its column names in order and its rows in order, a row
\* being a function from the column names to the values; its index is the
\* default one, 0, 1, 2, ...
DataFrame(columns, rows) == [columns |-> columns, rows |-> rows]

\* df.empty
empty(df) == df.columns = <<>> \/ df.rows = <<>>

\* pd.read_csv on a pasted table, given as its headers and the texts of its
\* cells row by row: an empty cell is nan, a column whose other cells are all
\* numbers holds floats, any other column holds the texts
read_csv(headers, cells) ==
    LET numeric(j) ==
            \A i \in 1..Len(cells) : cells[i][j] = "" \/ cells[i][j] \in DOMAIN NumericText
        value(i, j) ==
            IF cells[i][j] = "" THEN NaN
            ELSE IF numeric(j) THEN Num(NumericText[cells[i][j]])
            ELSE Str(cells[i][j])
        position(c) == CHOOSE j \in 1..Len(headers) : headers[j] = c
    IN  DataFrame(headers,
                  [i \in 1..Len(cells) |-> [c \in Range(headers) |-> value(i, position(c))]])

column_mapping ==
    ("model" :> "model")
    @@ ("tons" :> "capacity_tons")
    @@ ("efficiency_kw_per_ton" :> "efficiency_kw_per_ton")
    @@ ("iplv_kw_per_ton" :> "iplv_kw_per_ton")
    @@ ("waterflow_usgpm" :> "waterflow_usgpm")
    @@ ("unit_kw" :> "unit_kw")
    @@ ("compressor_kw" :> "compressor_kw")
    @@ ("fan_kw" :> "fan_kw")
    @@ ("pressure_drop" :> "pressure_drop")
    @@ ("mca_amps" :> "mca_amps")
    @@ ("dimensions" :> "dimensions")

\* the name parse_table_text gives to the column of header col
new_column(col) ==
    IF normalize_header(col) \in DOMAIN column_mapping
    THEN column_mapping[normalize_header(col)]
    ELSE col

\* df.columns = new_columns
rename(df) ==
    LET position(c) == CHOOSE j \in 1..Len(df.columns) : new_column(df.columns[j]) = c
        new_columns == [j \in 1..Len(df.columns) |-> new_column(df.columns[j])]
    IN  DataFrame(new_columns,
                  [i \in 1..Len(df.rows) |->
                      [c \in Range(new_columns) |-> df.rows[i][df.columns[position(c)]]]])

\* df[name] = values, values[i] being the value of row i: a new column goes
\* last
assign(df, name, values) ==
    DataFrame(IF name \in Range(df.columns) THEN df.columns ELSE Append(df.columns, name),
              [i \in 1..Len(df.rows) |-> (name :> values[i]) @@ df.rows[i]])

\* the same value in every row of df
broadcast(df, value) == [i \in 1..Len(df.rows) |-> value]

\* the folder name with every batch value given
folder_name_full(ambient_f, ewt_c, lwt_c) ==
    ToString(ambient_f[1]) \o "°F " \o ToString(ewt_c[1]) \o "°C/"
        \o ToString(lwt_c[1]) \o "°C"

\* the folder name that is "Unknown" when the ambient comes with only one of
\* EWT and LWT
folder_name_ambient_alone(ambient_f, ewt_c, lwt_c) ==
    IF ambient_f # NULL /\ ewt_c # NULL /\ lwt_c # NULL
    THEN folder_name_full(ambient_f, ewt_c, lwt_c)
    ELSE IF ambient_f # NULL /\ ewt_c = NULL /\ lwt_c = NULL
    THEN ToString(ambient_f[1]) \o "°F"
    ELSE "Unknown"

\* the folder name of one call
folder_name(ambient_f, ewt_c, lwt_c) ==
    IF ambient_f # NULL /\ ewt_c # NULL /\ lwt_c # NULL
    THEN folder_name_full(ambient_f, ewt_c, lwt_c)
    ELSE IF ambient_f # NULL THEN ToString(ambient_f[1]) \o "°F"
    ELSE "Unknown"

\* df[name] = value when a batch value is given
assign_batch_value(df, name, value) ==
    IF value # NULL THEN assign(df, name, broadcast(df, Num(value[1]))) ELSE df

\* df['model_prefix']: the prefix of the model of each row, None for a row
\* or a frame without a model
assign_model_prefix(df) ==
    IF "model" \in Range(df.columns)
    THEN assign(df, "model_prefix",
                [i \in 1..Len(df.rows) |->
                    IF ~isna(df.rows[i]["model"])
                    THEN extract_model_prefix(df.rows[i]["model"].s)
                    ELSE None])
    ELSE assign(df, "model_prefix", broadcast(df, None))

\* the batch values, the folder name and the model prefix added to df
add_batch_columns(df, ambient_f, ewt_c, lwt_c) ==
    assign_model_prefix(
        assign(assign_batch_value(
                   assign_batch_value(
                       assign_batch_value(df, "ambient_f", ambient_f),
                       "ewt_c", ewt_c),
                   "lwt_c", lwt_c),
               "folder_name",
               broadcast(df, Str(folder_name(ambient_f, ewt_c, lwt_c)))))

\* df[['model'] + other_columns] when df has a model column
model_first(df) ==
    IF "model" \in Range(df.columns)
    THEN DataFrame(<<"model">> \o SelectSeq(df.columns, LAMBDA c : c # "model"), df.rows)
    ELSE df

RECURSIVE row_errors(_, _)
\* the errors of the rows from row i on, each as "Row <idx + 1>: <error>"
row_errors(validated, i) ==
    IF i > Len(validated) THEN <<>>
    ELSE [k \in 1..Len(validated[i].errors) |->
             "Row " \o ToString(i) \o ": " \o validated[i].errors[k]]
         \o row_errors(validated, i + 1)

\* the result frame without the rows that have no capacity
result_frame_of_valid_rows(df, validated_rows) ==
    LET valid == SelectSeq(validated_rows, LAMBDA r : "capacity_tons" \in DOMAIN r)
        available_columns ==
            SelectSeq(df.columns,
                      LAMBDA c : \E i \in 1..Len(valid) : c \in DOMAIN valid[i])
    IN  DataFrame(available_columns,
                  [i \in 1..Len(valid) |->
                      [c \in Range(available_columns) |->
                          IF c \in DOMAIN valid[i] THEN valid[i][c] ELSE NaN]])

\* pd.DataFrame(validated_rows)[available_columns]: the columns of df that
\* are a key of some cleaned row, in the order of df; a row without the key
\* holds nan
result_frame(df, validated_rows) ==
    LET available_columns ==
            SelectSeq(df.columns,
                      LAMBDA c : \E i \in 1..Len(validated_rows) : c \in DOMAIN validated_rows[i])
    IN  DataFrame(available_columns,
                  [i \in 1..Len(validated_rows) |->
                      [c \in Range(available_columns) |->
                          IF c \in DOMAIN validated_rows[i] THEN validated_rows[i][c] ELSE NaN]])

\* the frame and the errors parse_table_text returns for the frame df it
\* validated, validated being what validate_chiller_data returned for each row
validated_frame(df, validated) ==
    [df |-> result_frame(df, [i \in 1..Len(validated) |-> validated[i].cleaned]),
     errors |-> row_errors(validated, 1)]

\* the loop over the rows of df and the frame made of the cleaned rows
validate_frame(df) ==
    validated_frame(df, [i \in 1..Len(df.rows) |-> validate_chiller_data(df.rows[i])])

\* parse_table_text from the frame pd.read_csv returned on
parse_frame(df, ambient_f, ewt_c, lwt_c) ==
    IF empty(df)
    THEN [df |-> df, errors |-> <<"No data could be parsed from the input">>]
    ELSE validate_frame(model_first(add_batch_columns(rename(df), ambient_f, ewt_c, lwt_c)))

\* the data lines that make pd.read_csv raise: those with more fields than
\* the header, the first data line having as many as the header
too_many_fields(headers, cells) ==
    {i \in 1..Len(cells) : Len(cells[i]) > Len(headers)}

\* what pd.read_csv says of the first such line
read_csv_message(headers, cells) ==
    LET i == CHOOSE k \in too_many_fields(headers, cells) :
                 \A j \in too_many_fields(headers, cells) : k <= j
    IN  "Expected " \o ToString(Len(headers)) \o " fields in line "
            \o ToString(i + 1) \o ", saw " \o ToString(Len(cells[i]))

\* an except clause that returns the errors as they are
parse_raised_without_warning(errors, message) ==
    [df |-> DataFrame(<<>>, <<>>), errors |-> errors]

\* the except clause of parse_table_text: an empty frame, and the errors
\* collected so far with the message of the exception after them
parse_raised(errors, message) ==
    [df |-> DataFrame(<<>>, <<>>),
     errors |-> Append(errors, "Error parsing table: " \o message)]

\* parse_table_text(text, ambient_f, ewt_c, lwt_c), the text given as the
\* headers and the cell texts pd.read_csv finds in it; a whitespace-only text
\* has no header.  The tables of the model have no dimensions and no
\* pressure_drop column, so that parse_special_fields adds nothing.
parse_table_text(headers, cells, ambient_f, ewt_c, lwt_c) ==
    IF headers = <<>>
    THEN [df |-> DataFrame(<<>>, <<>>), errors |-> <<"No data provided">>]
    ELSE IF too_many_fields(headers, cells) # {}
    THEN parse_raised(<<>>, read_csv_message(headers, cells))
    ELSE parse_frame(read_csv(headers, cells), ambient_f, ewt_c, lwt_c)

\* ------------------------------------------------------------------------
\* Record Store (db.py): batch_insert_chillers
\* ------------------------------------------------------------------------

\* what SQLite stores for a bound value: NULL for nan, the JSON text of a
\* dictionary, which its entries stand for
sql_value(value) ==
    CASE value.t \in {"None", "nan"} -> NULL
      [] value.t = "float" -> Some(value.v)
      [] value.t = "str" -> Some(value.s)
      [] value.t = "dict" -> Some(value.d)

\* the row INSERT makes of chiller_data: a column that is no key is NULL; of
\* the columns of the table the row keeps those the model reads
inserted_row(id, chiller_data) ==
    [c \in {"model", "capacity_tons", "ambient_f", "ewt_c", "lwt_c",
            "efficiency_kw_per_ton", "waterflow_usgpm", "manufacturer",
            "extras_json", "folder_name", "model_prefix"} |->
        IF c \in DOMAIN chiller_data THEN sql_value(chiller_data[c]) ELSE NULL]
    @@ [id |-> id]

\* the INSERT of chiller_data raises: model is NOT NULL
insert_raises(chiller_data) ==
    "model" \notin DOMAIN chiller_data \/ sql_value(chiller_data["model"]) = NULL

\* the rows of chillers_data, with the ids from id on
inserted_rows(id, chillers_data) ==
    [k \in 1..Len(chillers_data) |-> inserted_row(id + k - 1, chillers_data[k])]

\* a batch_insert_chillers that commits after every INSERT: the rows before
\* the first one that raises stay in the table
batch_insert_chillers_committing_each(st, id, chillers_data) ==
    LET raising == {k \in 1..Len(chillers_data) : insert_raises(chillers_data[k])}
        done == IF raising = {} THEN Len(chillers_data)
                ELSE (CHOOSE k \in raising : \A j \in raising : k <= j) - 1
    IN  [raised |-> raising # {},
         message |-> IF raising # {} THEN "NOT NULL constraint failed: chillers.model"
                     ELSE "",
         store |-> st \o inserted_rows(id, SubSeq(chillers_data, 1, done)),
         nextId |-> id + done]

\* batch_insert_chillers(chillers_data) on the table st with next id: the
\* INSERTs run in one transaction that is committed after the last one; an
\* INSERT that raises leaves the function before the commit, and closing the
\* connection drops what the transaction did
batch_insert_chillers(st, id, chillers_data) ==
    IF \E k \in 1..Len(chillers_data) : insert_raises(chillers_data[k])
    THEN [raised |-> TRUE, message |-> "NOT NULL constraint failed: chillers.model",
          store |-> st, nextId |-> id]
    ELSE [raised |-> FALSE, message |-> "",
          store |-> st \o inserted_rows(id, chillers_data),
          nextId |-> id + Len(chillers_data)]

\* ------------------------------------------------------------------------
\* Record Store (db.py): get_db_connection
\* ------------------------------------------------------------------------

\* conn = sqlite3.connect('chillers.db') in get_db_connection, entered by the
\* with statement of operation on behalf of caller; the body of the with
\* statement comes next
connect(operation, caller) ==
    [operation |-> operation, caller |-> caller, step |-> "body",
     raised |-> FALSE, open |-> TRUE]

\* the body of the with statement has returned or has raised
leave_body(conn, raised) == [conn EXCEPT !.step = "finally", !.raised = raised]

\* a get_db_connection that closes after the yield, without try and finally
close_when_returned(conn) == [conn EXCEPT !.step = "exited", !.open = conn.raised]

\* finally: conn.close(), and the operation is left
close(conn) == [conn EXCEPT !.step = "exited", !.open = FALSE]

\* ------------------------------------------------------------------------
\* Importer (Chilo/importer.py): import_chillers_from_dataframe
\* ------------------------------------------------------------------------

batch_size == 50

RECURSIVE record_errors(_, _)
\* the validation errors of the records of batch from record k on
record_errors(validated, k) ==
    IF k > Len(validated) THEN <<>>
    ELSE [j \in 1..Len(validated[k].errors) |->
             "Record validation error: " \o validated[k].errors[j]]
         \o record_errors(validated, k + 1)

\* batch_insert_chillers was called on cleaned_batch and returned or raised
\* as inserted says
after_insert(acc, i, errors, cleaned_batch, inserted) ==
    [store |-> inserted.store,
     nextId |-> inserted.nextId,
     imported_count |-> IF inserted.raised THEN acc.imported_count
                        ELSE acc.imported_count + Len(cleaned_batch),
     errors |-> IF inserted.raised
                THEN Append(errors,
                            "Error importing batch " \o ToString((i \div batch_size) + 1)
                                \o ": " \o inserted.message)
                ELSE errors,
     calls |-> Append(acc.calls, Len(cleaned_batch))]

\* the body of the loop for the batch at offset i, validated being what
\* validate_chiller_data returned for each of its records
import_batch(acc, i, validated) ==
    LET cleaned_batch == [k \in 1..Len(validated) |-> validated[k].cleaned]
    IN  after_insert(acc, i, acc.errors \o record_errors(validated, 1), cleaned_batch,
                     batch_insert_chillers(acc.store, acc.nextId, cleaned_batch))

RECURSIVE import_batches_until_error(_, _, _)
\* the loop over the batches that ends at the first batch the Store refuses
import_batches_until_error(chillers_data, i, acc) ==
    IF i >= Len(chillers_data) THEN acc
    ELSE LET last == IF i + batch_size < Len(chillers_data)
                     THEN i + batch_size ELSE Len(chillers_data)
             batch == SubSeq(chillers_data, i + 1, last)
         IN  import_batches_until_error(
                 chillers_data,
                 IF \E k \in 1..Len(batch) : ~truthy(batch[k]["model"])
                 THEN Len(chillers_data) ELSE i + batch_size,
                 import_batch(acc, i,
                              [k \in 1..Len(batch) |-> validate_chiller_data(batch[k])]))

RECURSIVE import_batches(_, _, _)
\* the loop over the batches from offset i on; acc holds the table, the next
\* id, imported_count, errors and the sizes of the batches handed to
\* batch_insert_chillers so far
import_batches(chillers_data, i, acc) ==
    IF i >= Len(chillers_data) THEN acc
    ELSE LET last == IF i + batch_size < Len(chillers_data)
                     THEN i + batch_size ELSE Len(chillers_data)
             batch == SubSeq(chillers_data, i + 1, last)
         IN  import_batches(chillers_data, i + batch_size,
                 import_batch(acc, i,
                              [k \in 1..Len(batch) |-> validate_chiller_data(batch[k])]))

\* import_chillers_from_dataframe(df, db_module) on the table st with next id
import_chillers_from_dataframe(df, st, id) ==
    IF empty(df)
    THEN [store |-> st, nextId |-> id, imported_count |-> 0,
          errors |-> <<"No data to import">>, calls |-> <<>>]
    ELSE import_batches(df.rows, 0,
                        [store |-> st, nextId |-> id, imported_count |-> 0,
                         errors |-> <<>>, calls |-> <<>>])

\* ------------------------------------------------------------------------
\* Importer (Chilo/importer.py): import_from_file
\* ------------------------------------------------------------------------

\* batch_insert_chillers was called on validated_rows, all of them in one
\* call, and returned or raised as inserted says
file_insert(errors, validated_rows, inserted) ==
    [store |-> inserted.store,
     nextId |-> inserted.nextId,
     imported_count |-> IF inserted.raised THEN 0 ELSE Len(validated_rows),
     errors |-> IF inserted.raised
                THEN Append(errors, "Database error: " \o inserted.message)
                ELSE errors,
     calls |-> <<Len(validated_rows)>>]

\* import_from_file after the loop over the rows, validated being what
\* validate_chiller_data returned for each row
file_validated(validated, st, id) ==
    IF validated = <<>>
    THEN [store |-> st, nextId |-> id, imported_count |-> 0,
          errors |-> <<"No valid data found">>, calls |-> <<>>]
    ELSE file_insert(row_errors(validated, 1),
                     [i \in 1..Len(validated) |-> validated[i].cleaned],
                     batch_insert_chillers(st, id,
                         [i \in 1..Len(validated) |-> validated[i].cleaned]))

\* the loop of import_from_file over the rows of df
file_rows(df, st, id) ==
    file_validated([i \in 1..Len(df.rows) |-> validate_chiller_data(df.rows[i])], st, id)

\* df.columns = [normalize_header(col) for col in df.columns], for a df whose
\* headers normalize_header keeps apart
normalized_columns(df) ==
    DataFrame([j \in 1..Len(df.columns) |-> normalize_header(df.columns[j])],
              [i \in 1..Len(df.rows) |->
                  [c \in {normalize_header(h) : h \in Range(df.columns)} |->
                      df.rows[i][CHOOSE h \in Range(df.columns) : normalize_header(h) = c]]])

\* import_from_file(file_path, ambient_f, ewt_c, lwt_c) on the table st with
\* next id, df being the frame pd.read_csv read from the file
import_from_file(df, ambient_f, ewt_c, lwt_c, st, id) ==
    file_rows(add_batch_columns(normalized_columns(df), ambient_f, ewt_c, lwt_c), st, id)

\* ------------------------------------------------------------------------
\* User interface (app.py): add_to_search_history
\* ------------------------------------------------------------------------

\* the entry of a search made at the second timestamp
search_entry(capacity, ambient, ewt, lwt, timestamp) ==
    [capacity |-> capacity, ambient |-> ambient, ewt |-> ewt, lwt |-> lwt,
     timestamp |-> timestamp]

\* the entries of history that are not of the same search parameters
without_duplicates(history, capacity, ambient, ewt, lwt) ==
    SelectSeq(history,
              LAMBDA s : ~(s.capacity = capacity /\ s.ambient = ambient
                             /\ s.ewt = ewt /\ s.lwt = lwt))

\* history[:5]
first_five(history) == SubSeq(history, 1, IF Len(history) < 5 THEN Len(history) ELSE 5)

\* an add_to_search_history that puts the new search at the end
add_to_search_history_at_end(history, capacity, ambient, ewt, lwt, timestamp) ==
    first_five(Append(without_duplicates(history, capacity, ambient, ewt, lwt),
                      search_entry(capacity, ambient, ewt, lwt, timestamp)))

\* add_to_search_history(capacity, ambient, ewt, lwt) at the second
\* timestamp, on the history of the session: what the history becomes
add_to_search_history(history, capacity, ambient, ewt, lwt, timestamp) ==
    first_five(<<search_entry(capacity, ambient, ewt, lwt, timestamp)>>
               \o without_duplicates(history, capacity, ambient, ewt, lwt))

\* ------------------------------------------------------------------------
\* User interface (app.py): import_page, the tab of the pasted data
\* ------------------------------------------------------------------------

\* the import button is enabled
import_button_enabled(session) ==
    "parsed_df" \in DOMAIN session /\ ~empty(session["parsed_df"])

\* the session after the parse button, parse_result being what
\* parse_table_text returned
after_parse(session, parse_result) ==
    IF ~empty(parse_result.df)
    THEN ("parsed_df" :> parse_result.df) @@ ("parsed_errors" :> parse_result.errors)
    ELSE session

\* an import that leaves the session as it is
after_import_keeping_parsed(session, imported_count) == session

\* the session after the import button: parsed_df and parsed_errors are
\* deleted when records were imported
after_import(session, imported_count) ==
    IF imported_count > 0
    THEN [k \in DOMAIN session \ {"parsed_df", "parsed_errors"} |-> session[k]]
    ELSE session

\* ------------------------------------------------------------------------
\* State machine
\* ------------------------------------------------------------------------

\* no connection has been made, no utility has run and the session is new
InitOther ==
    /\ connections = <<>>
    /\ row_dict = NULL
    /\ validation = NULL
    /\ model_name = <<>>
    /\ model_prefix = NULL
    /\ search_history = <<>>
    /\ session_state = <<>>

Init ==
    /\ store = <<>>
    /\ nextId = 1
    /\ result = NULL
    /\ queryLog = <<>>
    /\ text = <<>>
    /\ delimiter = NULL
    /\ pasted = NULL
    /\ parsed = NULL
    /\ imported = NULL
    /\ InitOther

\* a run of the search page that writes the ranked rows, with their
\* annotations, back to the table
FindBestChillers_persisting_annotations(capacity_tons, ambient_f, ewt_c, lwt_c) ==
    LET r == find_best_chillers(store, capacity_tons, ambient_f, ewt_c, lwt_c)
        ranked(i) == {m \in Range(r.all_matches) : m.id = store[i].id}
    IN  /\ result = NULL
        /\ result' = Some(ResultOf(r))
        /\ queryLog' = r.calls
        /\ store' = [i \in 1..Len(store) |->
                         IF ranked(i) # {} THEN CHOOSE m \in ranked(i) : TRUE
                         ELSE store[i]]
        /\ UNCHANGED <<nextId, importVars, otherVars>>

\* One run of the search page: the search button calls find_best_chillers on
\* the Store as it is; results is a local of the run.
FindBestChillers(capacity_tons, ambient_f, ewt_c, lwt_c) ==
    LET r == find_best_chillers(store, capacity_tons, ambient_f, ewt_c, lwt_c)
    IN  /\ result = NULL
        /\ result' = Some(ResultOf(r))
        /\ queryLog' = r.calls
        /\ UNCHANGED <<store, nextId, importVars, otherVars>>

\* The run of the search page ends after it has shown the results; the next
\* interaction starts a new run.
EndRun ==
    /\ result # NULL
    /\ result' = NULL
    /\ queryLog' = <<>>
    /\ UNCHANGED <<store, nextId, importVars, otherVars>>

\* a chiller row without its id
ChillerData(capacity_tons, ambient_f, ewt_c, lwt_c, efficiency, waterflow) ==
    [model |-> Some("ACHX-B 90S"),
     capacity_tons |-> capacity_tons, ambient_f |-> ambient_f,
     ewt_c |-> ewt_c, lwt_c |-> lwt_c,
     efficiency_kw_per_ton |-> efficiency, waterflow_usgpm |-> waterflow]

\* a row is inserted between two runs of the search page, while the table
\* holds fewer than max rows
InsertRow(rows, max) ==
    \E row \in rows :
        /\ result = NULL
        /\ Len(store) < max
        /\ insert_chiller(row)

\* -- filter catalog: the rows differ in capacity, ambient and water
\* -- temperatures; the searches reach every tolerance level

FilterRows ==
    {ChillerData(c, a, w[1], w[2], Some(1), Some(5)) :
        c \in {NULL, Some(33), Some(47)},
        a \in {NULL, Some(95), Some(105)},
        w \in {<<NULL, Some(44)>>, <<Some(54), Some(44)>>, <<Some(54), Some(45)>>}}

FilterCapacities == {40, 41, 42, 43}

FilterAmbients == {95, 115}

FilterWaterTemps ==
    {<<NULL, NULL>>, <<Some(54), Some(44)>>, <<Some(54), NULL>>, <<Some(55), Some(44)>>}

InsertFilterRow == InsertRow(FilterRows, MaxStore)

SearchFilter ==
    \E c \in FilterCapacities, a \in FilterAmbients, w \in FilterWaterTemps :
        FindBestChillers(c, a, w[1], w[2])

NextFilter == InsertFilterRow \/ SearchFilter \/ EndRun

SpecFilter == Init /\ [][NextFilter]_vars

\* -- bracket catalog: rows at one rating point with capacities on both sides
\* -- of the targets

BracketRows ==
    {ChillerData(Some(c), Some(95), Some(54), Some(44), Some(e), Some(5)) :
        c \in {36, 38, 41, 43, 44, 47}, e \in {1, 2}}

BracketCapacities == {39, 40, 41}

InsertBracketRow == InsertRow(BracketRows, MaxBracket)

SearchBracket ==
    \E c \in BracketCapacities : FindBestChillers(c, 95, Some(54), Some(44))

NextBracket == InsertBracketRow \/ SearchBracket \/ EndRun

SpecBracket == Init /\ [][NextBracket]_vars

\* -- ranking catalog: rows at one rating point that differ in capacity,
\* -- efficiency and waterflow

RankRows ==
    {ChillerData(Some(c), Some(95), Some(54), Some(44), e, w) :
        c \in {39, 41}, e \in {NULL, Some(1), Some(2)}, w \in {NULL, Some(0), Some(5)}}

RankCapacities == {40, 41}

InsertRankRow == InsertRow(RankRows, MaxRank)

SearchRank ==
    \E c \in RankCapacities : FindBestChillers(c, 95, Some(54), Some(44))

NextRank == InsertRankRow \/ SearchRank \/ EndRun

SpecRank == Init /\ [][NextRank]_vars

\* -- scenario catalog: three rows at 105 F, 54 C / 44 C with capacities 98,
\* -- 102 and 115 tons and efficiencies 0.60, 0.55 and 0.58 kW/ton, kept in
\* -- hundredths

ScenarioRows ==
    {ChillerData(Some(r[1]), Some(105), Some(54), Some(44), Some(r[2]), Some(5)) :
        r \in {<<98, 60>>, <<102, 55>>, <<115, 58>>}}

ScenarioCapacities == {90, 100, 110}

InsertScenarioRow == InsertRow(ScenarioRows, MaxScenario)

SearchScenario ==
    \E c \in ScenarioCapacities : FindBestChillers(c, 105, Some(54), Some(44))

NextScenario == InsertScenarioRow \/ SearchScenario \/ EndRun

SpecScenario == Init /\ [][NextScenario]_vars

\* -- texts: every text of at most MaxTextLen characters over a letter, the
\* -- tab, the comma, the space and the line feed

Characters == {"x", "\t", ",", " ", "\n"}

Texts == UNION {[1..n -> Characters] : n \in 0..MaxTextLen}

InitDelimiter ==
    /\ store = <<>>
    /\ nextId = 1
    /\ result = NULL
    /\ queryLog = <<>>
    /\ text \in Texts
    /\ delimiter = NULL
    /\ pasted = NULL
    /\ parsed = NULL
    /\ imported = NULL
    /\ InitOther

DetectDelimiter ==
    /\ delimiter = NULL
    /\ delimiter' = Some(detect_delimiter(text))
    /\ UNCHANGED <<store, nextId, result, queryLog, text, pasted, parsed, imported, otherVars>>

NextDelimiter == DetectDelimiter

SpecDelimiter == InitDelimiter /\ [][NextDelimiter]_vars

\* -- pasted tables: three layouts of headers, with and without a model
\* -- and an efficiency column, each with a column no field is mapped to; at
\* -- most MaxRows rows of cells; every combination of the batch options

\* the cell texts a column of the pasted tables may hold
CellTexts ==
    ("Model" :> {"", "ACHX-B 90S"})
    @@ ("Tons" :> {"98", "abc"})
    @@ ("Energy Efficiency (kW/Ton)" :> {"", "1"})
    @@ ("Voltage" :> {"", "460V"})

PastedHeaders ==
    {<<"Model", "Tons", "Energy Efficiency (kW/Ton)", "Voltage">>,
     <<"Tons", "Model", "Voltage">>,
     <<"Tons", "Energy Efficiency (kW/Ton)", "Voltage">>}

\* the rows of cell texts under the headers
PastedRows(headers) ==
    {row \in [1..Len(headers) -> UNION {CellTexts[h] : h \in Range(headers)}] :
        \A j \in 1..Len(headers) : row[j] \in CellTexts[headers[j]]}

PastedTables ==
    {[headers |-> <<>>, cells |-> <<>>]}
    \cup UNION {{[headers |-> h, cells |-> c] :
                    c \in UNION {[1..n -> PastedRows(h)] : n \in 0..MaxRows}} :
                h \in PastedHeaders}

\* the user fills the text area and the batch options of the import page
PasteTable ==
    /\ pasted = NULL
    /\ \E table \in PastedTables,
          a \in {NULL, Some(95)}, e \in {NULL, Some(54)}, l \in {NULL, Some(44)} :
        /\ pasted' = Some([headers |-> table.headers, cells |-> table.cells,
                           ambient_f |-> a, ewt_c |-> e, lwt_c |-> l])
        /\ UNCHANGED <<store, nextId, result, queryLog, text, delimiter, parsed, imported, otherVars>>

\* parse_table_text is called on the paste
ParseTableText ==
    /\ pasted # NULL
    /\ parsed = NULL
    /\ parsed' = Some(parse_table_text(pasted[1].headers, pasted[1].cells,
                                       pasted[1].ambient_f, pasted[1].ewt_c,
                                       pasted[1].lwt_c))
    /\ UNCHANGED <<store, nextId, result, queryLog, text, delimiter, pasted, imported, otherVars>>

NextParse == PasteTable \/ ParseTableText

SpecParse == Init /\ [][NextParse]_vars

\* -- pasted texts pd.read_csv rejects: a table above with one more cell in
\* -- its last line

RaggedTables ==
    UNION {{[headers |-> h, cells |-> Append(c, Append(row, "1"))] :
               c \in UNION {[1..n -> PastedRows(h)] : n \in 1..(MaxRows - 1)},
               row \in PastedRows(h)} :
           h \in PastedHeaders}

\* the user fills the text area with a table or with a text that is none
PasteText ==
    /\ pasted = NULL
    /\ \E table \in PastedTables \cup RaggedTables,
          a \in {NULL, Some(95)}, e \in {NULL, Some(54)} :
        /\ pasted' = Some([headers |-> table.headers, cells |-> table.cells,
                           ambient_f |-> a, ewt_c |-> e, lwt_c |-> NULL])
        /\ UNCHANGED <<store, nextId, result, queryLog, text, delimiter, parsed, imported, otherVars>>

NextText == PasteText \/ ParseTableText

SpecText == Init /\ [][NextText]_vars

\* -- frames to import: at most MaxRuns runs of 1 or batch_size records of
\* -- one kind: a complete record, a record whose model is None, a record
\* -- whose capacity is a text

ImportColumns == <<"model", "capacity_tons", "efficiency_kw_per_ton">>

ImportRecords ==
    {[model |-> Str("ACHX-B 90S"), capacity_tons |-> Num(98),
      efficiency_kw_per_ton |-> Num(1)],
     [model |-> None, capacity_tons |-> Num(98), efficiency_kw_per_ton |-> Num(1)],
     [model |-> Str("ACHX-B 90S"), capacity_tons |-> Str("abc"),
      efficiency_kw_per_ton |-> Num(1)]}

ImportRuns == [record : ImportRecords, length : {1, batch_size}]

RECURSIVE Expand(_)
\* the records of the runs, in order
Expand(runs) ==
    IF runs = <<>> THEN <<>>
    ELSE [k \in 1..Head(runs).length |-> Head(runs).record] \o Expand(Tail(runs))

ImportFrames ==
    {DataFrame(ImportColumns, Expand(runs)) :
        runs \in UNION {[1..n -> ImportRuns] : n \in 0..MaxRuns}}

\* a row is inserted before the import, while the table holds fewer than
\* MaxStoredBefore rows
InsertBeforeImport ==
    /\ imported = NULL
    /\ InsertRow({ChillerData(Some(47), Some(95), Some(54), Some(44), Some(1), Some(5))},
                 MaxStoredBefore)

\* import_chillers_from_dataframe is called on a frame
ImportDataframe ==
    /\ imported = NULL
    /\ \E df \in ImportFrames :
           \E r \in {import_chillers_from_dataframe(df, store, nextId)} :
               /\ imported' = Some([df |-> df, imported_count |-> r.imported_count,
                                    errors |-> r.errors, calls |-> r.calls])
               /\ store' = r.store
               /\ nextId' = r.nextId
               /\ UNCHANGED <<result, queryLog, text, delimiter, pasted, parsed, otherVars>>

\* -- files to import: the frames above, read from a file whose empty model
\* -- cells are nan

FileFrames ==
    {DataFrame(df.columns,
               [i \in 1..Len(df.rows) |->
                   [df.rows[i] EXCEPT !["model"] = IF @ = None THEN NaN ELSE @]]) :
        df \in ImportFrames}

\* import_from_file is called on a file
ImportFromFile ==
    /\ imported = NULL
    /\ \E df \in FileFrames, a \in {NULL, Some(95)} :
           \E r \in {import_from_file(df, a, NULL, NULL, store, nextId)} :
               /\ imported' = Some([df |-> df, imported_count |-> r.imported_count,
                                    errors |-> r.errors, calls |-> r.calls])
               /\ store' = r.store
               /\ nextId' = r.nextId
               /\ UNCHANGED <<result, queryLog, text, delimiter, pasted, parsed, otherVars>>

NextImport == InsertBeforeImport \/ ImportDataframe

SpecImport == Init /\ [][NextImport]_vars

\* both import paths
NextFile == InsertBeforeImport \/ ImportDataframe \/ ImportFromFile

SpecFile == Init /\ [][NextFile]_vars

\* -- connections: two callers run Store operations, each operation in the
\* -- steps of its with statement

\* the lists handed to batch_insert_chillers: a record with a model, a record
\* without, and one after the other
ConnectionBatches ==
    {<<[model |-> Str("ACHX-B 90S"), capacity_tons |-> Num(98)]>>,
     <<[model |-> None, capacity_tons |-> Num(98)]>>,
     <<[model |-> Str("ACHX-B 90S"), capacity_tons |-> Num(98)],
       [model |-> None, capacity_tons |-> Num(98)]>>}

\* a caller that has left its last operation enters the with statement of
\* an operation
EnterOperation ==
    /\ Len(connections) < MaxConnections
    /\ \E caller \in {1, 2},
          operation \in {"batch_insert_chillers", "get_chillers_by_criteria"} :
           /\ \A i \in 1..Len(connections) :
                  connections[i].caller = caller => connections[i].step = "exited"
           /\ connections' = Append(connections, connect(operation, caller))
           /\ UNCHANGED <<store, nextId, result, queryLog, importVars, utilVars, sessionVars>>

\* the body of batch_insert_chillers runs on a list and returns or raises
BatchInsertBody ==
    \E i \in 1..Len(connections) :
        /\ connections[i].operation = "batch_insert_chillers"
        /\ connections[i].step = "body"
        /\ \E chillers_data \in ConnectionBatches :
               \E r \in {batch_insert_chillers(store, nextId, chillers_data)} :
                   /\ store' = r.store
                   /\ nextId' = r.nextId
                   /\ connections' =
                          [connections EXCEPT ![i] = leave_body(@, r.raised)]
        /\ UNCHANGED <<result, queryLog, importVars, utilVars, sessionVars>>

\* the body of get_chillers_by_criteria runs and returns
QueryBody ==
    \E i \in 1..Len(connections) :
        /\ connections[i].operation = "get_chillers_by_criteria"
        /\ connections[i].step = "body"
        /\ connections' = [connections EXCEPT ![i] = leave_body(@, FALSE)]
        /\ UNCHANGED <<store, nextId, result, queryLog, importVars, utilVars, sessionVars>>

\* the with statement is left through the finally of get_db_connection
ExitOperation ==
    \E i \in 1..Len(connections) :
        /\ connections[i].step = "finally"
        /\ connections' = [connections EXCEPT ![i] = close(@)]
        /\ UNCHANGED <<store, nextId, result, queryLog, importVars, utilVars, sessionVars>>

NextConnection == EnterOperation \/ BatchInsertBody \/ QueryBody \/ ExitOperation

SpecConnection == Init /\ [][NextConnection]_vars

\* -- dictionaries to validate: the model, the capacity and the efficiency
\* -- are absent, None, nan, a text or a number

\* the dictionary with the keys that are given
ValidateData(model, capacity_tons, efficiency_kw_per_ton) ==
    LET given == ("model" :> model) @@ ("capacity_tons" :> capacity_tons)
                 @@ ("efficiency_kw_per_ton" :> efficiency_kw_per_ton)
    IN  [k \in {j \in DOMAIN given : given[j] # NULL} |-> given[k][1]]

\* validate_chiller_data is called on a dictionary
ValidateChillerData ==
    /\ row_dict = NULL
    /\ \E m \in {NULL, Some(None), Some(NaN), Some(Str("")), Some(Str("ACHX-B 90S"))},
          c \in {NULL, Some(None), Some(NaN), Some(Str("")), Some(Str("N/A")),
                 Some(Str("abc")), Some(Str("98")), Some(Num(98))},
          e \in {NULL, Some(None), Some(NaN), Some(Str("N/A")), Some(Num(1))} :
           /\ row_dict' = Some(ValidateData(m, c, e))
           /\ validation' = Some(validate_chiller_data(ValidateData(m, c, e)))
    /\ UNCHANGED <<store, nextId, result, queryLog, importVars, connections,
                   model_name, model_prefix, sessionVars>>

NextValidate == ValidateChillerData

SpecValidate == Init /\ [][NextValidate]_vars

\* -- models to take the prefix of: texts of a letter, the dash, a digit and
\* -- the space

ModelNames == UNION {[1..n -> {"A", "-", "9", " "}] : n \in 0..MaxModelLen}

InitPrefix ==
    /\ store = <<>>
    /\ nextId = 1
    /\ result = NULL
    /\ queryLog = <<>>
    /\ text = <<>>
    /\ delimiter = NULL
    /\ pasted = NULL
    /\ parsed = NULL
    /\ imported = NULL
    /\ connections = <<>>
    /\ row_dict = NULL
    /\ validation = NULL
    /\ model_name \in ModelNames
    /\ model_prefix = NULL
    /\ search_history = <<>>
    /\ session_state = <<>>

\* extract_model_prefix is called on the model
ExtractModelPrefix ==
    /\ model_prefix = NULL
    /\ model_prefix' = Some(extract_model_prefix_of(model_name))
    /\ UNCHANGED <<store, nextId, result, queryLog, importVars, connections,
                   row_dict, validation, model_name, sessionVars>>

NextPrefix == ExtractModelPrefix

SpecPrefix == InitPrefix /\ [][NextPrefix]_vars

\* -- searches of the history: three capacities and the two leaving water
\* -- temperatures of the search form

\* the seconds datetime.now() can show: not before the second of any search
\* of the history
Now(history) ==
    LET seconds == {history[k].timestamp : k \in 1..Len(history)} \cup {1}
        latest == CHOOSE t \in seconds : \A u \in seconds : u <= t
    IN  {t \in {latest, latest + 1} : t <= MaxClock}

\* the search button adds the search to the history
AddToSearchHistory ==
    /\ \E capacity \in {100, 200, 300}, lwt \in {44, 45},
          timestamp \in Now(search_history) :
           search_history' =
               add_to_search_history(search_history, capacity, 95, 54, lwt, timestamp)
    /\ UNCHANGED <<store, nextId, result, queryLog, importVars, connections, utilVars,
                   session_state>>

NextHistory == AddToSearchHistory

SpecHistory == Init /\ [][NextHistory]_vars

\* -- the tab of the pasted data: the user parses a pasted table of at most
\* -- one data row, with or without a model column, and imports what the
\* -- session holds

SessionTables ==
    UNION {{[headers |-> h, cells |-> c] :
               c \in {<<>>} \cup {<<row>> : row \in PastedRows(h)}} :
           h \in {<<"Model", "Tons">>, <<"Tons">>}}

\* the parse button, on a text that is not blank
ParseButton ==
    \E table \in SessionTables, a \in {NULL, Some(95)} :
        /\ \E r \in {parse_table_text(table.headers, table.cells, a, NULL, NULL)} :
               session_state' = after_parse(session_state, r)
        /\ UNCHANGED <<store, nextId, result, queryLog, importVars, connections,
                       utilVars, search_history>>

\* the import button, on the parsed data of the session
ImportButton ==
    /\ import_button_enabled(session_state)
    /\ Len(store) < MaxImported
    /\ \E r \in {import_chillers_from_dataframe(session_state["parsed_df"],
                                                 store, nextId)} :
           /\ store' = r.store
           /\ nextId' = r.nextId
           /\ imported' = Some([df |-> session_state["parsed_df"],
                                imported_count |-> r.imported_count,
                                errors |-> r.errors, calls |-> r.calls])
           /\ session_state' = after_import(session_state, r.imported_count)
    /\ UNCHANGED <<result, queryLog, text, delimiter, pasted, parsed, connections,
                   utilVars, search_history>>

NextSession == ParseButton \/ ImportButton

SpecSession == Init /\ [][NextSession]_vars

\* ------------------------------------------------------------------------
\* Properties of the result of a search
\* ------------------------------------------------------------------------

\* the dictionary of the search that was just made
Res == result[1]

\* the row of the table stands in the capacity band of the target for tol
InBand(row, target, tol) ==
    /\ row.capacity_tons # NULL
    /\ row.capacity_tons[1] * 1000 >= target * (1000 - tol)
    /\ row.capacity_tons[1] * 1000 <= target * (1000 + tol)

\* the positions of the table whose row has the ambient, the water
\* temperatures asked for in si and a capacity in the band of tol
MatchingRows(si, ambient, tol) ==
    {i \in 1..Len(store) :
        /\ store[i].ambient_f = Some(ambient)
        /\ (si.ewt_c # NULL => store[i].ewt_c = si.ewt_c)
        /\ (si.lwt_c # NULL => store[i].lwt_c = si.lwt_c)
        /\ InBand(store[i], si.capacity_tons, tol)}

\* the tolerance levels in the order of the specification
Levels == <<100, 125, 150, 175, 200>>

\* the levels a search tries at one ambient: all up to the first with a
\* matching row, or all five
LevelsTried(si, ambient) ==
    {k \in 1..Len(Levels) :
        \A j \in 1..(k - 1) : MatchingRows(si, ambient, Levels[j]) = {}}

\* a result row without the annotations of the ranking
Persisted(m) ==
    [f \in DOMAIN m \ {"_rank", "_cap_delta", "_temp_score"} |-> m[f]]

\* C1: the search tries 10%, 12.5%, 15%, 17.5%, 20% in this order at the
\* requested ambient and stops at the first level with a matching row:
\* tolerance_used is that level, no smaller level has a matching row, and
\* capacity_range is [target*(1-tolerance_used), target*(1+tolerance_used)].
C1_FirstLevelWithCandidates ==
    result # NULL =>
        LET si == Res.search_info
            tried == LevelsTried(si, si.ambient_f)
        IN  /\ \E k \in 1..Len(Levels) : Levels[k] = si.tolerance_used
            /\ si.capacity_range = <<si.capacity_tons * (1000 - si.tolerance_used),
                                     si.capacity_tons * (1000 + si.tolerance_used)>>
            /\ Len(queryLog) >= Cardinality(tried)
            /\ \A k \in tried : queryLog[k] = CriteriaCall(si.ambient_f, Levels[k])
            /\ ~Res.no_matches =>
                   /\ MatchingRows(si, si.ambient_f, si.tolerance_used) # {}
                   /\ \A k \in 1..Len(Levels) :
                          Levels[k] < si.tolerance_used =>
                              MatchingRows(si, si.ambient_f, Levels[k]) = {}
                   /\ Len(queryLog) = Cardinality(tried)
                   /\ si.tolerance_used = Levels[Cardinality(tried)]

\* a search stopped at 15% after 10% and 12.5% found nothing
C1_Witness ==
    /\ result # NULL
    /\ ~Res.no_matches
    /\ Res.search_info.tolerance_used = 150
    /\ Len(queryLog) = 3

\* C2: all_matches is exactly the set of rows of the table with the target
\* ambient, the target EWT and LWT where one is given, and a capacity in the
\* inclusive band of the tolerance used.
C2_AllMatchesExact ==
    (result # NULL /\ ~Res.no_matches) =>
        LET si == Res.search_info
            rows == MatchingRows(si, si.ambient_f, si.tolerance_used)
        IN  /\ Len(Res.all_matches) = Cardinality(rows)
            /\ \A i \in rows :
                   \E k \in 1..Len(Res.all_matches) : Persisted(Res.all_matches[k]) = store[i]
            /\ \A k \in 1..Len(Res.all_matches) :
                   \E i \in rows : Persisted(Res.all_matches[k]) = store[i]

\* a search with an LWT target kept one row and left out a row of the same
\* ambient whose LWT differs
C2_Witness ==
    /\ result # NULL
    /\ ~Res.no_matches
    /\ Res.search_info.lwt_c # NULL
    /\ Len(Res.all_matches) = 1
    /\ \E i \in 1..Len(store) :
           /\ store[i].ambient_f = Some(Res.search_info.ambient_f)
           /\ InBand(store[i], Res.search_info.capacity_tons, Res.search_info.tolerance_used)
           /\ store[i].lwt_c # Res.search_info.lwt_c

\* the rows of all_matches other than the best option
Others == {m \in Range(Res.all_matches) : m.id # Res.best_option[1].id}

\* the ranked candidates other than the best whose capacity is above its own
OthersAbove ==
    {m \in Others : m.capacity_tons[1] > Res.best_option[1].capacity_tons[1]}

\* the ranked candidates other than the best whose capacity is below its own
OthersBelow ==
    {m \in Others : m.capacity_tons[1] < Res.best_option[1].capacity_tons[1]}

\* the alternatives with a capacity above the best option's
AlternativesAbove ==
    {k \in 1..Len(Res.alternatives) :
        Res.alternatives[k].capacity_tons[1] > Res.best_option[1].capacity_tons[1]}

\* the alternatives with a capacity below the best option's
AlternativesBelow ==
    {k \in 1..Len(Res.alternatives) :
        Res.alternatives[k].capacity_tons[1] < Res.best_option[1].capacity_tons[1]}

\* C3: the closest-above alternative is a candidate of smallest capacity
\* among the ranked candidates other than the best whose capacity is
\* strictly greater than the best's, the closest-below alternative one of
\* largest capacity among those strictly smaller; each is there exactly
\* when such a candidate exists, and there is no other alternative.
C3_ClosestAboveAndBelow ==
    (result # NULL /\ Res.best_option # NULL) =>
        /\ Cardinality(AlternativesAbove) = (IF OthersAbove # {} THEN 1 ELSE 0)
        /\ Cardinality(AlternativesBelow) = (IF OthersBelow # {} THEN 1 ELSE 0)
        /\ Len(Res.alternatives) = Cardinality(AlternativesAbove) + Cardinality(AlternativesBelow)
        /\ \A k \in AlternativesAbove :
               /\ Res.alternatives[k] \in OthersAbove
               /\ \A m \in OthersAbove :
                      Res.alternatives[k].capacity_tons[1] <= m.capacity_tons[1]
        /\ \A k \in AlternativesBelow :
               /\ Res.alternatives[k] \in OthersBelow
               /\ \A m \in OthersBelow :
                      Res.alternatives[k].capacity_tons[1] >= m.capacity_tons[1]

\* two candidates of different capacity stand above the best option and
\* none below
C3_Witness ==
    /\ result # NULL
    /\ Res.best_option # NULL
    /\ \E m, n \in OthersAbove : m.capacity_tons[1] < n.capacity_tons[1]
    /\ OthersBelow = {}
    /\ Len(Res.alternatives) = 1

\* C4: the best option is the candidate of rank 1; there are at most two
\* alternatives, the closest above before the closest below, so at most
\* three results; every alternative is a row of all_matches and another
\* record than the best option.
C4_BestAndAlternatives ==
    (result # NULL /\ ~Res.no_matches) =>
        /\ Res.best_option # NULL
        /\ Res.best_option[1] = Res.all_matches[1]
        /\ Res.best_option[1]._rank = 1
        /\ Len(Res.alternatives) <= 2
        /\ 1 + Len(Res.alternatives) <= 3
        /\ \A k \in 1..Len(Res.alternatives) :
               /\ Res.alternatives[k] \in Range(Res.all_matches)
               /\ Res.alternatives[k].id # Res.best_option[1].id
        /\ Len(Res.alternatives) = 2 =>
               /\ Res.alternatives[1].id # Res.alternatives[2].id
               /\ Res.alternatives[1].capacity_tons[1] > Res.best_option[1].capacity_tons[1]
               /\ Res.alternatives[2].capacity_tons[1] < Res.best_option[1].capacity_tons[1]

\* a search returned the best option with a row above and a row below it
C4_Witness ==
    /\ result # NULL
    /\ ~Res.no_matches
    /\ Len(Res.alternatives) = 2

\* |capacity - target| of a ranked row
CapDelta(m) == Abs(m.capacity_tons[1] - Res.search_info.capacity_tons)

\* the temperature score of a ranked row
TempScore(m) ==
    (IF Res.search_info.ewt_c # NULL /\ m.ewt_c # NULL
     THEN Abs(m.ewt_c[1] - Res.search_info.ewt_c[1]) ELSE 0)
    + (IF Res.search_info.lwt_c # NULL /\ m.lwt_c # NULL
       THEN Abs(m.lwt_c[1] - Res.search_info.lwt_c[1]) ELSE 0)

\* the efficiency of a is below the efficiency of b, a missing efficiency
\* being +infinity
EffBelow(a, b) ==
    /\ a.efficiency_kw_per_ton # NULL
    /\ \/ b.efficiency_kw_per_ton = NULL
       \/ a.efficiency_kw_per_ton[1] < b.efficiency_kw_per_ton[1]

\* the waterflow of a ranked row, a missing waterflow being 0
Flow(m) == IF m.waterflow_usgpm = NULL THEN 0 ELSE m.waterflow_usgpm[1]

\* a and b tie on capacity delta and temperature score
TieOnDeltaAndTemp(a, b) ==
    /\ CapDelta(a) = CapDelta(b)
    /\ TempScore(a) = TempScore(b)

\* a and b tie on capacity delta, temperature score and efficiency
TieOnDeltaTempAndEff(a, b) ==
    /\ TieOnDeltaAndTemp(a, b)
    /\ a.efficiency_kw_per_ton = b.efficiency_kw_per_ton

\* the tuple (|capacity - target|, temperature score, efficiency, -waterflow)
\* of a is below the tuple of b
TupleBelow(a, b) ==
    \/ CapDelta(a) < CapDelta(b)
    \/ /\ CapDelta(a) = CapDelta(b)
       /\ TempScore(a) < TempScore(b)
    \/ /\ TieOnDeltaAndTemp(a, b)
       /\ EffBelow(a, b)
    \/ /\ TieOnDeltaTempAndEff(a, b)
       /\ -Flow(a) < -Flow(b)

\* a and b have the same tuple
SameTuple(a, b) ==
    /\ TieOnDeltaTempAndEff(a, b)
    /\ Flow(a) = Flow(b)

\* the position of a result row in the table, which is the order in which
\* the query returns the rows
StorePos(m) == CHOOSE i \in 1..Len(store) : store[i].id = m.id

\* C5: all_matches is sorted ascending by the tuple (|capacity - target|,
\* temperature score, efficiency, -waterflow); rows of equal tuple keep the
\* order of the query; the list is a permutation of the rows the query
\* returned and its i-th row has _rank = i.
C5_RankedSortedStable ==
    (result # NULL /\ ~Res.no_matches) =>
        LET ranked == Res.all_matches
            si == Res.search_info
            rows == MatchingRows(si, si.ambient_f, si.tolerance_used)
        IN  /\ \A i, j \in 1..Len(ranked) :
                   i < j =>
                       /\ ~TupleBelow(ranked[j], ranked[i])
                       /\ SameTuple(ranked[i], ranked[j]) =>
                              StorePos(ranked[i]) < StorePos(ranked[j])
            /\ Len(ranked) = Cardinality(rows)
            /\ \A r \in rows : \E i \in 1..Len(ranked) : Persisted(ranked[i]) = store[r]
            /\ \A i \in 1..Len(ranked) : ranked[i]._rank = i

\* three rows were ranked, two of equal tuple among them, and the ranking
\* moved a later row of the table before an earlier one
C5_Witness ==
    /\ result # NULL
    /\ Len(Res.all_matches) = 3
    /\ \E i, j \in 1..3 : i < j /\ SameTuple(Res.all_matches[i], Res.all_matches[j])
    /\ \E i, j \in 1..3 :
           i < j /\ StorePos(Res.all_matches[i]) > StorePos(Res.all_matches[j])

\* C6 as stated: no candidate with a null efficiency precedes a candidate
\* with a non-null efficiency in the ranked list.
C6_NullEfficiencyLast ==
    (result # NULL /\ ~Res.no_matches) =>
        \A i, j \in 1..Len(Res.all_matches) :
            i < j =>
                ~ /\ Res.all_matches[i].efficiency_kw_per_ton = NULL
                  /\ Res.all_matches[j].efficiency_kw_per_ton # NULL

\* C6 as amended: among candidates that tie on capacity delta and
\* temperature score, no candidate with a null efficiency precedes a
\* candidate with a known, finite efficiency.
C6_NullEfficiencyLastAmongTies ==
    (result # NULL /\ ~Res.no_matches) =>
        \A i, j \in 1..Len(Res.all_matches) :
            (i < j /\ TieOnDeltaAndTemp(Res.all_matches[i], Res.all_matches[j])) =>
                ~ /\ Res.all_matches[i].efficiency_kw_per_ton = NULL
                  /\ Res.all_matches[j].efficiency_kw_per_ton # NULL

\* a row with a null efficiency stands in the table before a row with a
\* known efficiency that ties with it on capacity delta, and after it in
\* the ranking
C6_Witness ==
    /\ result # NULL
    /\ \E i, j \in 1..Len(Res.all_matches) :
           /\ i < j
           /\ TieOnDeltaAndTemp(Res.all_matches[i], Res.all_matches[j])
           /\ Res.all_matches[i].efficiency_kw_per_ton # NULL
           /\ Res.all_matches[j].efficiency_kw_per_ton = NULL
           /\ StorePos(Res.all_matches[j]) < StorePos(Res.all_matches[i])

\* C7: among candidates that tie on capacity delta, temperature score and
\* efficiency, a candidate with a null waterflow comes after every
\* candidate whose waterflow is known.
C7_NullWaterflowLast ==
    (result # NULL /\ ~Res.no_matches) =>
        \A i, j \in 1..Len(Res.all_matches) :
            (i < j /\ TieOnDeltaTempAndEff(Res.all_matches[i], Res.all_matches[j])) =>
                ~ /\ Res.all_matches[i].waterflow_usgpm = NULL
                  /\ Res.all_matches[j].waterflow_usgpm # NULL

\* some tolerance level has a matching row at the ambient
HasMatch(si, ambient) ==
    \E k \in 1..Len(Levels) : MatchingRows(si, ambient, Levels[k]) # {}

\* the first tolerance level with a matching row at the ambient
FirstLevel(si, ambient) ==
    Levels[CHOOSE k \in LevelsTried(si, ambient) : MatchingRows(si, ambient, Levels[k]) # {}]

\* the distinct non-null ambients of the table
StoreAmbients ==
    {store[i].ambient_f[1] : i \in {j \in 1..Len(store) : store[j].ambient_f # NULL}}

\* C8: when no tolerance level has a candidate at the requested ambient, the
\* result has no_matches = true and its fallback list has exactly one group
\* for each distinct non-null ambient of the table at which the widening
\* search with the same capacity, EWT and LWT finds a row; the group carries
\* the ambient, the number of matching rows and the tolerance used.
C8_FallbackGroups ==
    (result # NULL /\ ~HasMatch(Res.search_info, Res.search_info.ambient_f)) =>
        LET si == Res.search_info
            groups == Res.fallback_available.groups
        IN  /\ Res.no_matches
            /\ Res.fallback_available.searched
            /\ \A a \in StoreAmbients :
                   HasMatch(si, a) =>
                       Cardinality({g \in 1..Len(groups) : groups[g].ambient_f = a}) = 1
            /\ \A g \in 1..Len(groups) :
                   /\ groups[g].ambient_f \in StoreAmbients
                   /\ HasMatch(si, groups[g].ambient_f)
                   /\ groups[g].tolerance_used = FirstLevel(si, groups[g].ambient_f)
                   /\ groups[g].count =
                          Cardinality(MatchingRows(si, groups[g].ambient_f,
                                                   groups[g].tolerance_used))

\* nothing matches at the requested ambient and the fallback list names
\* ambient 95 and ambient 105, each with its count
C8_Witness ==
    /\ result # NULL
    /\ Res.no_matches
    /\ Len(Res.fallback_available.groups) = 2
    /\ Res.fallback_available.groups[1].ambient_f = 95
    /\ Res.fallback_available.groups[1].count = 1

\* C9: a result with no_matches = false has fallback_available = False and
\* its search called neither get_available_ambients nor the query at another
\* ambient; a result carries a fallback list only when no tolerance level has
\* a candidate at the requested ambient.
C9_FallbackOnlyWithoutCandidates ==
    result # NULL =>
        /\ ~Res.no_matches =>
               /\ Res.fallback_available = FallbackFalse
               /\ \A k \in 1..Len(queryLog) :
                      /\ queryLog[k].fn = "get_chillers_by_criteria"
                      /\ queryLog[k].ambient_f = Res.search_info.ambient_f
        /\ Res.fallback_available.searched =>
               ~HasMatch(Res.search_info, Res.search_info.ambient_f)

\* a search found its single candidate at the requested ambient while the
\* table holds a row of another ambient that the fallback search would find
C9_Witness ==
    /\ result # NULL
    /\ ~Res.no_matches
    /\ Len(Res.all_matches) = 1
    /\ \E a \in StoreAmbients :
           a # Res.search_info.ambient_f /\ HasMatch(Res.search_info, a)

\* C10: when no row matches at any tolerance level up to 20%, the search
\* raises nothing and returns best_option = null, no alternatives, no
\* all_matches and no_matches = true; and no_matches is false exactly when
\* best_option is not null.
C10_NoMatchResult ==
    result # NULL =>
        /\ ~HasMatch(Res.search_info, Res.search_info.ambient_f) =>
               /\ ~Res.raised
               /\ Res.best_option = NULL
               /\ Res.alternatives = <<>>
               /\ Res.all_matches = <<>>
               /\ Res.no_matches
        /\ ~Res.no_matches <=> Res.best_option # NULL

\* the table holds a row of the requested ambient whose capacity is outside
\* the 20% band, and the search came back empty
C10_Witness ==
    /\ result # NULL
    /\ Res.no_matches
    /\ Res.best_option = NULL
    /\ Len(queryLog) >= Len(Levels)
    /\ \E i \in 1..Len(store) :
           /\ store[i].ambient_f = Some(Res.search_info.ambient_f)
           /\ store[i].capacity_tons # NULL
           /\ ~InBand(store[i], Res.search_info.capacity_tons, 200)

\* the table holds the 98, 102 and 115 ton rows of the scenario and nothing
\* else, and the search asked for 100 tons at 105 F, 54 C / 44 C
ScenarioSearched ==
    /\ result # NULL
    /\ {[f \in DOMAIN store[i] \ {"id"} |-> store[i][f]] : i \in 1..Len(store)}
           = ScenarioRows
    /\ Res.search_info.capacity_tons = 100
    /\ Res.search_info.ambient_f = 105
    /\ Res.search_info.ewt_c = Some(54)
    /\ Res.search_info.lwt_c = Some(44)

\* C11: with the 98, 102 and 115 ton rows (efficiencies 0.60, 0.55, 0.58) in
\* the table and a search for 100 tons at 105 F, 54 C / 44 C, the best option
\* is the 102 ton row and the 98 ton row is an alternative, below the best.
C11_ScenarioBest102 ==
    ScenarioSearched =>
        /\ Res.best_option # NULL
        /\ Res.best_option[1].capacity_tons = Some(102)
        /\ Res.best_option[1].efficiency_kw_per_ton = Some(55)
        /\ \E k \in AlternativesBelow :
               /\ Res.alternatives[k].capacity_tons = Some(98)
               /\ \A m \in OthersBelow : m.capacity_tons[1] <= 98

\* the scenario was searched with the 98 ton row inserted before the 102 ton
\* row
C11_Witness ==
    /\ ScenarioSearched
    /\ Len(store) = 3
    /\ store[1].capacity_tons = Some(98)
    /\ store[2].capacity_tons = Some(102)
    /\ Res.best_option # NULL

\* the fields the ranking adds to a candidate
Annotations == {"_rank", "_cap_delta", "_temp_score"}

\* C13: a search, with or without matches and with or without the fallback
\* search, leaves the table as it was: the same rows with the same fields;
\* the annotations _rank, _cap_delta and _temp_score are on the rows of the
\* result and on no row of the table.
C13_SearchLeavesStore ==
    [][(result = NULL /\ result' # NULL) =>
          /\ store' = store
          /\ nextId' = nextId
          /\ \A i \in 1..Len(store') : DOMAIN store'[i] \cap Annotations = {}
          /\ \A k \in 1..Len(result'[1].all_matches) :
                 /\ Annotations \subseteq DOMAIN result'[1].all_matches[k]
                 /\ Persisted(result'[1].all_matches[k]) \in Range(store')]_vars

\* a search ranked two rows of the table
C13_Witness ==
    /\ result # NULL
    /\ Len(Res.all_matches) = 2
    /\ Len(store) = 2
    /\ \A i \in 1..Len(store) : DOMAIN store[i] \cap Annotations = {}

\* ------------------------------------------------------------------------
\* Properties of the importer
\* ------------------------------------------------------------------------

\* the positions of text between its first and its last character that is
\* not whitespace
Kept ==
    {i \in 1..Len(text) :
        /\ \E j \in 1..i : text[j] \notin {" ", "\t", "\n"}
        /\ \E k \in i..Len(text) : text[k] \notin {" ", "\t", "\n"}}

\* the kept characters, line feeds aside, that stand on one of the first
\* three lines
Sampled ==
    {i \in Kept :
        /\ text[i] # "\n"
        /\ Cardinality({j \in Kept : j < i /\ text[j] = "\n"}) < 3}

Tabs == Cardinality({i \in Sampled : text[i] = "\t"})

Commas == Cardinality({i \in Sampled : text[i] = ","})

\* the runs of characters of blanks, at least two long, on the sampled lines
Runs(blanks) ==
    Cardinality({i \in Sampled :
                    /\ text[i] \in blanks
                    /\ (i + 1) \in Sampled /\ text[i + 1] \in blanks
                    /\ ~((i - 1) \in Sampled /\ text[i - 1] \in blanks)})

SpaceRuns == Runs({" "})

WhitespaceRuns == Runs({" ", "\t"})

Highest(a, b, c) == IF a >= b /\ a >= c THEN a ELSE IF b >= c THEN b ELSE c

\* C18 as stated: over the first three lines the tabs, the commas and the
\* runs of two or more spaces are counted and the kind with the highest count
\* is returned; on a tie for the highest, tab goes before comma and comma
\* before multi-space.
C18_HighestCountTabFirst ==
    delimiter # NULL =>
        delimiter[1] =
            (IF Tabs = Highest(Tabs, Commas, SpaceRuns) THEN "\t"
             ELSE IF Commas = Highest(Tabs, Commas, SpaceRuns) THEN ","
             ELSE "\\s{2,}")

\* C18, amended: over the first three lines of the stripped text the tabs,
\* the commas and the runs of two or more whitespace characters (spaces or
\* tabs) are counted and the kind with the highest count is returned; on a
\* tie for the highest, multi-space goes before comma and comma before tab.
C18_HighestCountSpaceFirst ==
    delimiter # NULL =>
        delimiter[1] =
            (IF WhitespaceRuns = Highest(Tabs, Commas, WhitespaceRuns) THEN "\\s{2,}"
             ELSE IF Commas = Highest(Tabs, Commas, WhitespaceRuns) THEN ","
             ELSE "\t")

\* a text with as many tabs as commas and fewer whitespace runs gave the comma
C18_Witness ==
    /\ delimiter = Some(",")
    /\ Tabs = Commas
    /\ Tabs > WhitespaceRuns
    /\ WhitespaceRuns > 0

\* the paste and what parse_table_text returned for it
Paste == pasted[1]
Parsed == parsed[1]

\* a table with at least one data row was parsed
ParsedRows == parsed # NULL /\ Paste.cells # <<>>

\* the column of the paste with header h, or 0
ColumnOf(h) ==
    IF h \in Range(Paste.headers)
    THEN CHOOSE j \in 1..Len(Paste.headers) : Paste.headers[j] = h
    ELSE 0

\* the text of data row i under header h, "" without such a column
CellOf(i, h) == IF ColumnOf(h) = 0 THEN "" ELSE Paste.cells[i][ColumnOf(h)]

\* the headers of the pasted tables that name a canonical field
RecognizedHeaders == {"Model", "Tons", "Energy Efficiency (kW/Ton)"}

\* C14 as stated: every non-empty cell under a header that names no canonical
\* field is, under that header, in the extras_json of the record
\* parse_table_text returns for its row.
C14_UnmappedColumnsKept ==
    ParsedRows =>
        \A i \in 1..Len(Paste.cells) :
            \A j \in 1..Len(Paste.headers) :
                (Paste.headers[j] \notin RecognizedHeaders /\ Paste.cells[i][j] # "") =>
                    /\ i <= Len(Parsed.df.rows)
                    /\ "extras_json" \in DOMAIN Parsed.df.rows[i]
                    /\ \E e \in Parsed.df.rows[i]["extras_json"].d :
                           e[1] = Paste.headers[j] /\ e[2].s = Paste.cells[i][j]

\* C16 as stated: every data row without a model, the model column missing or
\* its cell empty, has the warning "Row N: Model is required" with N its
\* 1-based position, and every warning is "Row <n>: <message>".
C16_MissingModelWarned ==
    ParsedRows =>
        /\ \A i \in 1..Len(Paste.cells) :
               CellOf(i, "Model") = "" =>
                   \E k \in 1..Len(Parsed.errors) :
                       Parsed.errors[k] = "Row " \o ToString(i) \o ": Model is required"
        /\ \A k \in 1..Len(Parsed.errors) :
               \E n \in 1..Len(Paste.cells),
                  m \in {"Model is required", "Capacity (tons) is required",
                         "Energy efficiency is required"} :
                   Parsed.errors[k] = "Row " \o ToString(n) \o ": " \o m

\* the record of the parsed frame holds what data row i holds in the
\* recognized columns that a number or a model name stands in
RecordOfRow(rec, i) ==
    /\ CellOf(i, "Model") # "" =>
           "model" \in DOMAIN rec /\ rec["model"].s = CellOf(i, "Model")
    /\ CellOf(i, "Tons") = "98" =>
           "capacity_tons" \in DOMAIN rec /\ rec["capacity_tons"].v = 98
    /\ CellOf(i, "Tons") = "abc" =>
           ("capacity_tons" \in DOMAIN rec => rec["capacity_tons"].t = "nan")
    /\ CellOf(i, "Energy Efficiency (kW/Ton)") = "1" =>
           "efficiency_kw_per_ton" \in DOMAIN rec /\ rec["efficiency_kw_per_ton"].v = 1
    /\ CellOf(i, "Energy Efficiency (kW/Ton)") = "" =>
           ("efficiency_kw_per_ton" \in DOMAIN rec =>
                rec["efficiency_kw_per_ton"].t = "nan")

FolderNameIs(name) ==
    \A i \in 1..Len(Parsed.df.rows) :
        /\ "folder_name" \in DOMAIN Parsed.df.rows[i]
        /\ Parsed.df.rows[i]["folder_name"].s = name

\* "<ambient>°F <EWT>°C/<LWT>°C" for the batch options of the paste
FullName ==
    ToString(Paste.ambient_f[1]) \o "°F " \o ToString(Paste.ewt_c[1]) \o "°C/"
        \o ToString(Paste.lwt_c[1]) \o "°C"

\* C19 as stated: every row has the same folder name, the full one when
\* ambient, EWT and LWT are all given, "<ambient>°F" when the ambient is given
\* and neither EWT nor LWT, and "Unknown" in every other case.
C19_FolderNameAmbientAlone ==
    ParsedRows =>
        FolderNameIs(IF Paste.ambient_f # NULL /\ Paste.ewt_c # NULL /\ Paste.lwt_c # NULL
                     THEN FullName
                     ELSE IF Paste.ambient_f # NULL /\ Paste.ewt_c = NULL /\ Paste.lwt_c = NULL
                     THEN ToString(Paste.ambient_f[1]) \o "°F"
                     ELSE "Unknown")

\* C19, amended: every row has the same folder name, the full one when
\* ambient, EWT and LWT are all given, "<ambient>°F" when the ambient is given
\* and EWT or LWT is not, and "Unknown" when the ambient is not given.
C19_FolderNameByAmbient ==
    ParsedRows =>
        FolderNameIs(IF Paste.ambient_f # NULL /\ Paste.ewt_c # NULL /\ Paste.lwt_c # NULL
                     THEN FullName
                     ELSE IF Paste.ambient_f # NULL
                     THEN ToString(Paste.ambient_f[1]) \o "°F"
                     ELSE "Unknown")

\* two rows were parsed with the ambient and the LWT given, the EWT not, and
\* both have the folder name "95°F"
C19_Witness ==
    /\ ParsedRows
    /\ Len(Parsed.df.rows) = 2
    /\ Paste.ambient_f = Some(95) /\ Paste.ewt_c = NULL /\ Paste.lwt_c = Some(44)
    /\ FolderNameIs("95°F")

\* the frame handed to the import that was just made and what it returned
Imported == imported[1]

\* a record of a frame with a model name, a capacity and an efficiency
Complete(record) ==
    /\ record["model"].t = "str"
    /\ record["capacity_tons"].t = "float"
    /\ record["efficiency_kw_per_ton"].t = "float"

\* C15 as stated: no row of the table lacks the model, the capacity or the
\* efficiency, and imported_count counts no record that lacks one of them.
C15_OnlyCompleteRecordsImported ==
    /\ \A i \in 1..Len(store) :
           /\ store[i].model # NULL
           /\ store[i].capacity_tons # NULL
           /\ store[i].efficiency_kw_per_ton # NULL
    /\ imported # NULL =>
           Imported.imported_count <=
               Cardinality({k \in 1..Len(Imported.df.rows) : Complete(Imported.df.rows[k])})

\* the number of the batch record k of a frame stands in
ChunkOf(k) == ((k - 1) \div batch_size) + 1

\* the batches of imp's frame with a record the Store refuses, one without
\* a model
FailedChunks(imp) ==
    {ChunkOf(k) : k \in {j \in 1..Len(imp.df.rows) : imp.df.rows[j]["model"] = None}}

\* the error string of batch c
ChunkError(c) ==
    "Error importing batch " \o ToString(c) \o ": NOT NULL constraint failed: chillers.model"

\* what an import of imp's frame does to the table, before and after being
\* the table before and after it: every batch without a refused record is
\* appended whole and in order, whatever batch failed before it, no other row
\* is added or changed, every batch is handed to the Store once, every failed
\* batch has one error string, and the counts are returned
ChunksHandled(before, after, imp) ==
    LET n == Len(imp.df.rows)
        chunks == 1..ChunkOf(n)
        failed == FailedChunks(imp)
        good == {k \in 1..n : ChunkOf(k) \notin failed}
        pos(k) == Len(before) + k
                      - batch_size * Cardinality({c \in failed : c < ChunkOf(k)})
    IN  /\ Len(after) = Len(before) + Cardinality(good)
        /\ SubSeq(after, 1, Len(before)) = before
        /\ \A k \in good :
               /\ after[pos(k)].model = Some(imp.df.rows[k]["model"].s)
               /\ after[pos(k)].capacity_tons =
                      (IF imp.df.rows[k]["capacity_tons"].t = "float"
                       THEN Some(imp.df.rows[k]["capacity_tons"].v) ELSE NULL)
        /\ imp.imported_count = Cardinality(good)
        /\ imp.calls = [c \in chunks |->
                            IF c * batch_size <= n THEN batch_size
                            ELSE n - (c - 1) * batch_size]
        /\ \A c \in chunks :
               Cardinality({e \in 1..Len(imp.errors) : imp.errors[e] = ChunkError(c)})
                   = (IF c \in failed THEN 1 ELSE 0)
        /\ \A e \in 1..Len(imp.errors) :
               \/ \E c \in failed : imp.errors[e] = ChunkError(c)
               \/ imp.errors[e] \in {"Record validation error: Model is required",
                                      "Record validation error: Capacity (tons) is required",
                                      "Record validation error: Energy efficiency is required"}

\* C20: a batch the Store refuses gives one error string for that batch and
\* does not stop the import: the batches before it stay in the table, every
\* later batch is still handed to the Store, once, and is in the table when
\* the Store accepts it, and the call returns imported_count and the errors.
C20_FailedChunkDoesNotStop ==
    [][(imported = NULL /\ imported' # NULL /\ imported'[1].df.rows # <<>>) =>
          ChunksHandled(store, store', imported'[1])]_vars

\* three batches were imported; the Store refused the second and took the
\* first and the third
C20_Witness ==
    /\ imported # NULL
    /\ Imported.calls = <<batch_size, batch_size, 1>>
    /\ FailedChunks(Imported) = {2}
    /\ Imported.imported_count = batch_size + 1
    /\ \E e \in 1..Len(Imported.errors) : Imported.errors[e] = ChunkError(2)
    /\ Len(store) >= batch_size + 1

\* ------------------------------------------------------------------------
\* Properties of the import paths
\* ------------------------------------------------------------------------

\* C21: on every import path no call of batch_insert_chillers carries more
\* than batch_size records, and the calls partition the records of the input
\* in order.  import_from_file hands all its rows to one call.
C21_CallsAtMostBatchSize ==
    imported # NULL =>
        /\ \A k \in 1..Len(Imported.calls) : Imported.calls[k] <= batch_size
        /\ sum(Imported.calls) = Len(Imported.df.rows)

\* ------------------------------------------------------------------------
\* Properties of the connections
\* ------------------------------------------------------------------------

\* the connections that are open
OpenConnections == {i \in 1..Len(connections) : connections[i].open}

\* C22: every Store operation acquires one connection and releases it on
\* exit, whether it returned or raised: an operation that was left has its
\* connection closed, so that no connection is open once every operation was
\* left, and the open connections belong to different callers, one to each
\* operation in progress.
C22_ConnectionReleasedOnExit ==
    /\ \A i \in 1..Len(connections) :
           connections[i].step = "exited" => i \notin OpenConnections
    /\ \A i, j \in OpenConnections :
           i # j => connections[i].caller # connections[j].caller

\* a batch insert raised, a later one returned, and every operation was left
C22_Witness ==
    /\ \E i, j \in 1..Len(connections) :
           /\ i < j
           /\ connections[i].operation = "batch_insert_chillers"
           /\ connections[i].raised
           /\ connections[j].operation = "batch_insert_chillers"
           /\ ~connections[j].raised
    /\ \A i \in 1..Len(connections) : connections[i].step = "exited"
    /\ OpenConnections = {}
    /\ Len(store) = 1

\* ------------------------------------------------------------------------
\* Properties of a paste that is no table
\* ------------------------------------------------------------------------

\* the paste is blank
Blank == Paste.headers = <<>>

\* the paste has a line that is longer than its header
Undecodable == \E i \in 1..Len(Paste.cells) : Len(Paste.cells[i]) > Len(Paste.headers)

\* C23: on a blank or undecodable text parse_table_text returns no record
\* and exactly one warning.
C23_NoRecordsOneWarning ==
    (parsed # NULL /\ (Blank \/ Undecodable)) =>
        /\ Parsed.df.rows = <<>>
        /\ Len(Parsed.errors) = 1

\* an undecodable text whose first line would have given an error of its own
C23_Witness ==
    /\ parsed # NULL
    /\ Undecodable
    /\ Len(Paste.cells) = 2
    /\ "abc" \in Range(Paste.cells[1])
    /\ Parsed.errors = <<"Error parsing table: Expected 3 fields in line 3, saw 4">>

\* ------------------------------------------------------------------------
\* Properties of validate_chiller_data
\* ------------------------------------------------------------------------

\* what validate_chiller_data returned
Validation == validation[1]

\* the required fields with the error of each
RequiredFields ==
    ("model" :> "Model is required")
    @@ ("capacity_tons" :> "Capacity (tons) is required")
    @@ ("efficiency_kw_per_ton" :> "Energy efficiency is required")

\* the field has no value in the cleaned record: it is absent, or the value
\* is nan, which the Store keeps as NULL
EndsUpNull(f) ==
    f \notin DOMAIN Validation.cleaned \/ Validation.cleaned[f].t \in {"None", "nan"}

\* how often the error stands in the errors
Occurrences(error) ==
    Cardinality({k \in 1..Len(Validation.errors) : Validation.errors[k] = error})

\* C24: validate_chiller_data returns exactly one error for each required
\* field that ends up null after cleaning and no error otherwise, and a
\* numeric field given as '', 'N/A' or a text that is no number is absent from
\* the cleaned record.  A capacity that is nan stays nan in the cleaned
\* record and has no error.
C24_OneErrorPerNullRequiredField ==
    validation # NULL =>
        /\ \A f \in DOMAIN RequiredFields :
               Occurrences(RequiredFields[f]) = IF EndsUpNull(f) THEN 1 ELSE 0
        /\ Len(Validation.errors)
               = Cardinality({f \in DOMAIN RequiredFields : EndsUpNull(f)})
        /\ \A f \in {"capacity_tons", "efficiency_kw_per_ton"} :
               (f \in DOMAIN row_dict[1]
                  /\ row_dict[1][f] \in {Str(""), Str("N/A"), Str("abc")})
               => f \notin DOMAIN Validation.cleaned

\* ------------------------------------------------------------------------
\* Properties of extract_model_prefix
\* ------------------------------------------------------------------------

\* the length of the leading run of letters and hyphens of the model
LeadingRunLength ==
    CHOOSE n \in 0..Len(model_name) :
        /\ \A k \in 1..n : model_name[k] \in {"A", "-"}
        /\ n < Len(model_name) => model_name[n + 1] \notin {"A", "-"}

\* the first whitespace-delimited token of the model, <<>> when it has none
FirstToken ==
    LET starts == {k \in 1..Len(model_name) : model_name[k] # " "}
        start == CHOOSE k \in starts : \A j \in starts : k <= j
        ends == {k \in start..Len(model_name) :
                    k = Len(model_name) \/ model_name[k + 1] = " "}
    IN  IF starts = {} THEN <<>>
        ELSE SubSeq(model_name, start, CHOOSE k \in ends : \A j \in ends : k <= j)

\* C25: extract_model_prefix returns the leading run of letters and hyphens
\* of the model, which ends at the first digit; the first
\* whitespace-delimited token only when the model has no such run; and null
\* for the empty model.  The code returns the whole first token, digits
\* included, when it holds a letter or a hyphen.
C25_LeadingRunOfLettersAndHyphens ==
    model_prefix # NULL =>
        IF model_name = <<>> THEN model_prefix[1] = NULL
        ELSE IF LeadingRunLength > 0
        THEN model_prefix[1] = Some(SubSeq(model_name, 1, LeadingRunLength))
        ELSE IF FirstToken # <<>> THEN model_prefix[1] = Some(FirstToken)
        ELSE TRUE

\* ------------------------------------------------------------------------
\* Properties of the search history
\* ------------------------------------------------------------------------

\* the entries are of the same search
SameSearch(a, b) ==
    /\ a.capacity = b.capacity
    /\ a.ambient = b.ambient
    /\ a.ewt = b.ewt
    /\ a.lwt = b.lwt

\* C26: the search history holds at most 5 entries, no two of the same
\* search parameters, the most recent search first and the others in the
\* order of their most recent use.
C26_HistoryRecentFirst ==
    /\ Len(search_history) <= 5
    /\ \A i, j \in 1..Len(search_history) :
           i # j => ~SameSearch(search_history[i], search_history[j])
    /\ \A i, j \in 1..Len(search_history) :
           i < j => search_history[i].timestamp >= search_history[j].timestamp

\* five entries, the first one more recent than the second and the last one
\* older than the one before it
C26_Witness ==
    /\ Len(search_history) = 5
    /\ search_history[1].timestamp > search_history[2].timestamp
    /\ search_history[5].timestamp < search_history[4].timestamp

\* ------------------------------------------------------------------------
\* Properties of the session of the import page
\* ------------------------------------------------------------------------

\* the step is an import
ImportStep == imported' # imported \/ store' # store

\* C27: an import happens only while the session holds parsed data that is
\* not empty, and it imports that data; an import that reports
\* imported_count > 0 removes the parsed data and its errors from the session,
\* so that the import button is disabled until the next parse; an import that
\* reports 0 leaves the session as it is.
C27_ImportConsumesParsedData ==
    [][ImportStep =>
          /\ "parsed_df" \in DOMAIN session_state
          /\ session_state["parsed_df"].rows # <<>>
          /\ imported'[1].df = session_state["parsed_df"]
          /\ IF imported'[1].imported_count > 0
             THEN DOMAIN session_state' = {}
             ELSE session_state' = session_state]_vars

\* an import that failed, on parsed data the session still holds, after an
\* import that added a row
C27_Witness ==
    /\ imported # NULL
    /\ Imported.imported_count = 0
    /\ "parsed_df" \in DOMAIN session_state
    /\ Imported.df = session_state["parsed_df"]
    /\ Len(store) = 1

\* ------------------------------------------------------------------------
\* Properties of the best option among the rows of the table
\* ------------------------------------------------------------------------

\* the positions of the table whose row has the ambient and the water
\* temperatures asked for in si and a capacity, whatever it is
MatchingAnyCapacity(si) ==
    {i \in 1..Len(store) :
        /\ store[i].ambient_f = Some(si.ambient_f)
        /\ (si.ewt_c # NULL => store[i].ewt_c = si.ewt_c)
        /\ (si.lwt_c # NULL => store[i].lwt_c = si.lwt_c)
        /\ store[i].capacity_tons # NULL}

\* C28: the best option of a search is no farther from the target capacity
\* than any row of the table with the requested ambient and the water
\* temperatures asked for, whatever the capacity of that row.
C28_BestIsClosestInStore ==
    (result # NULL /\ Res.best_option # NULL) =>
        \A i \in MatchingAnyCapacity(Res.search_info) :
            Abs(Res.best_option[1].capacity_tons[1] - Res.search_info.capacity_tons)
                <= Abs(store[i].capacity_tons[1] - Res.search_info.capacity_tons)

\* the search found its best option below the target after it widened the
\* tolerance, and the table holds a row of the rating point above the target
\* that the level does not reach
C28_Witness ==
    /\ result # NULL
    /\ Res.best_option # NULL
    /\ Res.search_info.tolerance_used > 100
    /\ Len(Res.all_matches) = 1
    /\ Res.best_option[1].capacity_tons[1] < Res.search_info.capacity_tons
    /\ \E i \in MatchingAnyCapacity(Res.search_info) :
           store[i].capacity_tons[1] > Res.search_info.capacity_tons

\* C29: every row of all_matches has _temp_score = 0, the query having kept
\* only the rows whose EWT and LWT equal the targets that were given.
C29_TempScoreZero ==
    result # NULL =>
        \A k \in 1..Len(Res.all_matches) :
            /\ Res.all_matches[k]["_temp_score"] = 0
            /\ Res.search_info.ewt_c # NULL =>
                   Res.all_matches[k].ewt_c = Res.search_info.ewt_c
            /\ Res.search_info.lwt_c # NULL =>
                   Res.all_matches[k].lwt_c = Res.search_info.lwt_c

\* a search with both water temperatures kept one row and left out a row of
\* the same ambient and capacity band with another LWT
C29_Witness ==
    /\ result # NULL
    /\ Res.search_info.ewt_c # NULL
    /\ Res.search_info.lwt_c # NULL
    /\ Len(Res.all_matches) = 1
    /\ \E i \in 1..Len(store) :
           /\ store[i].ambient_f = Some(Res.search_info.ambient_f)
           /\ InBand(store[i], Res.search_info.capacity_tons,
                     Res.search_info.tolerance_used)
           /\ store[i].lwt_c # NULL
           /\ store[i].lwt_c # Res.search_info.lwt_c

\* ------------------------------------------------------------------------
\* Properties of the batches of an import
\* ------------------------------------------------------------------------

\* the records of imp's frame in batch c
ChunkRecords(imp, c) == {k \in 1..Len(imp.df.rows) : ChunkOf(k) = c}

\* the rows an import added to the table
AddedRows(before, after) == SubSeq(after, Len(before) + 1, Len(after))

\* C30: every batch of import_chillers_from_dataframe is inserted as a
\* whole or not at all, and imported_count is the number of rows the call
\* added to the table: a batch with a record the Store refuses adds none of
\* its records, the ones before the refused record included, and any other
\* batch adds all of its records.
C30_ChunksAtomic ==
    [][(imported = NULL /\ imported' # NULL) =>
          /\ Len(store') >= Len(store)
          /\ SubSeq(store', 1, Len(store)) = store
          /\ Len(AddedRows(store, store')) = imported'[1].imported_count
          /\ Len(AddedRows(store, store'))
                = Cardinality(UNION {ChunkRecords(imported'[1], c) :
                                        c \in (1..Len(imported'[1].calls))
                                                 \ FailedChunks(imported'[1])})
          /\ \A k \in 1..Len(AddedRows(store, store')) :
                 AddedRows(store, store')[k].model # NULL]_vars

\* a batch of two records, the first with a model and the second without:
\* nothing was imported and the table holds no row of the batch
C30_Witness ==
    /\ imported # NULL
    /\ Imported.calls = <<2>>
    /\ Complete(Imported.df.rows[1])
    /\ Imported.df.rows[2]["model"] = None
    /\ Imported.imported_count = 0
    /\ \A i \in 1..Len(store) : store[i].capacity_tons = Some(47)

====
